---- MODULE Spec2Model ----
(***************************************************************************)
(* Model of the thurgood Marshal codec: the value graph (RbAny / RbRef     *)
(* cells behind Rc handles), the writer (RbWriter), the reader (RbReader)  *)
(* and the deep comparison (RbCompare).                                    *)
(*                                                                         *)
(* A handle (Rc<RbRef>) is an index into `heap`; two RbAny::Ref values     *)
(* alias the same object iff they carry the same index.  A byte is an      *)
(* integer in 0..255, a byte string a sequence of bytes.                   *)
(***************************************************************************)
EXTENDS Integers, Sequences, FiniteSets, TLC

VARIABLES
    heap,             \* all live Rc<RbRef> cells, indexed by handle
    val,              \* the RbAny at hand (encoder input / decoder output)
    buf,              \* the byte stream at hand (encoder output / decoder input)
    wr,               \* the RbWriter after the last to_writer / write_int
    rd,               \* the RbReader after the last from_reader / read_int
    pc,               \* what the caller holds: a value, bytes, or nothing
    calls,            \* number of codec calls made so far
    src_val,          \* the value handed to the last to_writer
    overflow_checks,  \* build profile: are integer overflow checks compiled in
    args,             \* the operands of deep_cmp / the path of find_child
    ret               \* what the calls on args have returned so far

vars == <<heap, val, buf, wr, rd, pc, calls, src_val, overflow_checks, args, ret>>

(***************************************************************************)
(* Bounds of the model.                                                    *)
(***************************************************************************)
MaxLen == 2        \* longest generated root Array
MaxCalls == 3      \* codec calls chained in one behaviour
MaxSmall == 130    \* the dense range -MaxSmall..MaxSmall of varint inputs

(***************************************************************************)
(* Bytes and 32-bit integers                                               *)
(***************************************************************************)
I32_MAX == 2147483647
I32_MIN == (-2147483647) - 1

Pow256(k) == CASE k = 0 -> 1 [] k = 1 -> 256 [] k = 2 -> 65536 [] OTHER -> 16777216

\* `x as u8` for an x that fits in i32
as_u8(x) == x % 256

\* `b as i8` for a byte b
as_i8(b) == IF b >= 128 THEN b - 256 ELSE b

\* byte k (0 = lowest) of the two's complement representation of the i32 v
le_byte(v, k) ==
    IF v >= 0 THEN (v \div Pow256(k)) % 256
    ELSE 255 - (((-(v + 1)) \div Pow256(k)) % 256)

\* i32::to_le_bytes
to_le_bytes(v) == <<le_byte(v, 0), le_byte(v, 1), le_byte(v, 2), le_byte(v, 3)>>

\* u32::from_le_bytes(b) as i32
from_le_bytes(b) ==
    IF b[4] >= 128
    THEN (-((255 - b[1]) + (255 - b[2]) * 256 + (255 - b[3]) * 65536
            + (255 - b[4]) * 16777216)) - 1
    ELSE b[1] + b[2] * 256 + b[3] * 65536 + b[4] * 16777216

\* the bytes s[from+1 .. from+n] of s
Slice(s, from, n) == [i \in 1..n |-> s[from + i]]

\* Let(v, F) is F with its parameter bound to v: `let v = ...;` followed by
\* the rest of the function body
Let(v, F(_)) == F(v)

(***************************************************************************)
(* The value model                                                         *)
(***************************************************************************)
\* enum RbAny
RbAny(t, i, s, h) == [t |-> t, i |-> i, s |-> s, h |-> h]
AnyInt(v) == RbAny("Int", v, <<>>, 0)
AnyTrue == RbAny("True", 0, <<>>, 0)
AnyFalse == RbAny("False", 0, <<>>, 0)
AnyNil == RbAny("Nil", 0, <<>>, 0)
AnySymbol(s) == RbAny("Symbol", 0, s, 0)
AnyRef(h) == RbAny("Ref", 0, <<>>, h)

\* RbAny::is_nil
is_nil(a) == a.t = "Nil"

\* enum RbRef: one record shape for all variants; a variant uses the fields
\* it has and leaves the others at their defaults.
\*   k      variant name
\*   s      content / name / data bytes (Str, StrI, Regex, RegexI, ClassRef,
\*          ModuleRef, ClassModuleRef, UserData)
\*   name   RbSymbol bytes (Object, Struct, Data, UserClass, UserMarshal,
\*          UserData, Extended.module)
\*   flags  Regex / RegexI flags (u32)
\*   num    Float value or BigInt value
\*   items  Array elements; the one payload of Data, UserClass, UserMarshal,
\*          Extended
\*   pairs  Hash entries / field map, in insertion order, as <<key, value>>
\*   def    Hash default: <<>> or <<value>>
\*   ph     TRUE for the throwaway cell made by read_object_ref
RbRef(k) ==
    [k |-> k, s |-> <<>>, name |-> <<>>, flags |-> 0,
     num |-> [neg |-> FALSE, mag |-> <<>>, inf |-> FALSE, nan |-> FALSE, q |-> 0, e |-> 0],
     items |-> <<>>, pairs |-> <<>>, def |-> <<>>, ph |-> FALSE]

\* constructors of the RbRef variants
Float(f) == [RbRef("Float") EXCEPT !.num = f]
BigInt(b) == [RbRef("BigInt") EXCEPT !.num = b]
Array(items) == [RbRef("Array") EXCEPT !.items = items]
Str(s) == [RbRef("Str") EXCEPT !.s = s]
StrI(content, metadata) == [RbRef("StrI") EXCEPT !.s = content, !.pairs = metadata]
Regex(content, flags) == [RbRef("Regex") EXCEPT !.s = content, !.flags = flags]
RegexI(content, flags, metadata) ==
    [RbRef("RegexI") EXCEPT !.s = content, !.flags = flags, !.pairs = metadata]
Hash(pairs, def) == [RbRef("Hash") EXCEPT !.pairs = pairs, !.def = def]
Struct(name, fields) == [RbRef("Struct") EXCEPT !.name = name, !.pairs = fields]
Object(name, fields) == [RbRef("Object") EXCEPT !.name = name, !.pairs = fields]
ClassRef(s) == [RbRef("ClassRef") EXCEPT !.s = s]
ModuleRef(s) == [RbRef("ModuleRef") EXCEPT !.s = s]
ClassModuleRef(s) == [RbRef("ClassModuleRef") EXCEPT !.s = s]
Data(name, data) == [RbRef("Data") EXCEPT !.name = name, !.items = <<data>>]
UserClass(name, data) == [RbRef("UserClass") EXCEPT !.name = name, !.items = <<data>>]
UserData(name, data) == [RbRef("UserData") EXCEPT !.name = name, !.s = data]
UserMarshal(name, data) == [RbRef("UserMarshal") EXCEPT !.name = name, !.items = <<data>>]
Extended(module, object) == [RbRef("Extended") EXCEPT !.name = module, !.items = <<object>>]

\* RbFloat: a finite value is the decimal q * 10^(-e) with a sign (so that
\* -0.0 and 0.0 are distinct values) and no trailing zero in the fraction,
\* or an infinity, or NaN
FloatVal(neg, q, e) ==
    [neg |-> neg, mag |-> <<>>, inf |-> FALSE, nan |-> FALSE, q |-> q, e |-> e]
FloatInf(neg) ==
    [neg |-> neg, mag |-> <<>>, inf |-> TRUE, nan |-> FALSE, q |-> 0, e |-> 0]
FloatNan ==
    [neg |-> FALSE, mag |-> <<>>, inf |-> FALSE, nan |-> TRUE, q |-> 0, e |-> 0]

\* num_bigint::BigInt: sign and little-endian magnitude without high zero
\* bytes; zero has the empty magnitude and no sign
BigVal(neg, mag) ==
    [neg |-> neg, mag |-> mag, inf |-> FALSE, nan |-> FALSE, q |-> 0, e |-> 0]

RECURSIVE strip_zeros(_)
strip_zeros(b) ==
    IF Len(b) > 0 /\ b[Len(b)] = 0 THEN strip_zeros(SubSeq(b, 1, Len(b) - 1)) ELSE b

\* BigInt::to_bytes_le, the magnitude part
to_bytes_le(b) == IF b.mag = <<>> THEN <<0>> ELSE b.mag

\* BigInt::is_negative
is_negative(b) == b.neg

\* BigInt::from_bytes_le(sign, bytes)
from_bytes_le(minus, bytes) ==
    Let(strip_zeros(bytes), LAMBDA m :
    BigVal(minus /\ m # <<>>, m))

(***************************************************************************)
(* Type bytes (consts.rs)                                                  *)
(***************************************************************************)
T_TRUE == 84
T_FALSE == 70
T_NIL == 48
T_INT == 105
T_SYMBOL == 58
T_SYMBOL_REF == 59
T_OBJECT_REF == 64
T_INSTANCE == 73
T_ARRAY == 91
T_BIGNUM == 108
T_CLASS == 99
T_MODULE == 109
T_CLASS_MODULE == 77
T_DATA == 100
T_FLOAT == 102
T_HASH == 123
T_HASH_DEFAULT == 125
T_OBJECT == 111
T_REGEX == 47
T_STRING == 34
T_STRUCT == 83
T_USER_CLASS == 67
T_USER_DEFINED == 117
T_USER_MARSHAL == 85
T_EXTENDED == 101

(***************************************************************************)
(* The derived orderings (#[derive(Ord)] on RbAny and RbRef, and the Ord   *)
(* impls of RbHash, RbObject, RbFields).  Rc<T>::cmp compares the pointees *)
(* and has no pointer shortcut, so comparing two handles recurses through  *)
(* the graph; on a cycle the recursion never returns and the stack         *)
(* overflows.  `stk` is the set of handle pairs whose comparison is on the *)
(* call stack: meeting one of them again is exactly the endless recursion. *)
(* Results: "Less", "Equal", "Greater", and "Overflow".                    *)
(***************************************************************************)
cmp_int(a, b) == IF a < b THEN "Less" ELSE IF a > b THEN "Greater" ELSE "Equal"

Min2(a, b) == IF a < b THEN a ELSE b

\* lexicographic order of byte strings (Vec<u8>, String, RbSymbol)
cmp_bytes(a, b) ==
    Let({i \in 1..Min2(Len(a), Len(b)) : a[i] # b[i]}, LAMBDA D :
    IF D # {}
    THEN Let(CHOOSE j \in D : \A k \in D : j <= k, LAMBDA i :
         cmp_int(a[i], b[i]))
    ELSE cmp_int(Len(a), Len(b)))

\* order of two u32 held as their i32 bit patterns
cmp_u32(a, b) ==
    IF (a < 0) = (b < 0) THEN cmp_int(a, b) ELSE IF a < 0 THEN "Greater" ELSE "Less"

\* first non-Equal of two results
then_cmp(c0, c1) == IF c0 = "Equal" THEN c1 ELSE c0

\* position of a variant in the declaration of enum RbAny
any_decl(a) ==
    CASE a.t = "Int" -> 0 [] a.t = "True" -> 1 [] a.t = "False" -> 2
      [] a.t = "Nil" -> 3 [] a.t = "Symbol" -> 4 [] OTHER -> 5

\* position of a variant in the declaration of enum RbRef
ref_decl(k) ==
    CASE k = "Float" -> 0 [] k = "BigInt" -> 1 [] k = "Array" -> 2 [] k = "Str" -> 3
      [] k = "StrI" -> 4 [] k = "Regex" -> 5 [] k = "RegexI" -> 6 [] k = "Hash" -> 7
      [] k = "Struct" -> 8 [] k = "Object" -> 9 [] k = "ClassRef" -> 10
      [] k = "ModuleRef" -> 11 [] k = "ClassModuleRef" -> 12 [] k = "Data" -> 13
      [] k = "UserClass" -> 14 [] k = "UserData" -> 15 [] k = "UserMarshal" -> 16
      [] OTHER -> 17

Pow10(k) == CASE k = 0 -> 1 [] k = 1 -> 10 [] k = 2 -> 100 [] OTHER -> 1000

\* f64::partial_cmp: "None" when either side is NaN.  Finite values are
\* brought to the larger of the two scales and compared as integers.
float_partial_cmp(a, b) ==
    Let(IF a.e > b.e THEN a.e ELSE b.e, LAMBDA m :
    LET key(f) == IF f.inf THEN (IF f.neg THEN I32_MIN ELSE I32_MAX)
                  ELSE (IF f.neg THEN -1 ELSE 1) * f.q * Pow10(m - f.e) IN
    IF a.nan \/ b.nan THEN "None" ELSE cmp_int(key(a), key(b)))

\* Ord for RbFloat: partial_cmp(..).unwrap_or(Equal)
float_cmp(a, b) ==
    Let(float_partial_cmp(a, b), LAMBDA c :
    IF c = "None" THEN "Equal" ELSE c)

\* order of two magnitudes (little-endian, no high zero bytes)
RECURSIVE mag_cmp(_, _)
mag_cmp(a, b) ==
    IF Len(a) # Len(b) THEN cmp_int(Len(a), Len(b))
    ELSE IF Len(a) = 0 THEN "Equal"
    ELSE IF a[Len(a)] # b[Len(b)] THEN cmp_int(a[Len(a)], b[Len(b)])
    ELSE mag_cmp(SubSeq(a, 1, Len(a) - 1), SubSeq(b, 1, Len(b) - 1))

\* Ord for num_bigint::BigInt
bigint_cmp(a, b) ==
    IF a.neg /\ ~b.neg THEN "Less"
    ELSE IF ~a.neg /\ b.neg THEN "Greater"
    ELSE IF a.neg THEN mag_cmp(b.mag, a.mag)
    ELSE mag_cmp(a.mag, b.mag)

RECURSIVE ord_any(_, _, _, _), ord_rc(_, _, _, _), ord_ref(_, _, _, _),
          ord_slice(_, _, _, _, _), ord_pairs(_, _, _, _, _)

\* derived Ord for RbAny
ord_any(hp, x, y, stk) ==
    IF x.t # y.t THEN cmp_int(any_decl(x), any_decl(y))
    ELSE CASE x.t = "Int" -> cmp_int(x.i, y.i)
           [] x.t = "Symbol" -> cmp_bytes(x.s, y.s)
           [] x.t = "Ref" -> ord_rc(hp, x.h, y.h, stk)
           [] OTHER -> "Equal"

\* Ord for Rc<RbRef>: (**self).cmp(&**other)
ord_rc(hp, a, b, stk) ==
    IF <<a, b>> \in stk THEN "Overflow"
    ELSE ord_ref(hp, hp[a], hp[b], stk \cup {<<a, b>>})

\* Ord for [RbAny]: element by element from index i, then by length
ord_slice(hp, l, r, i, stk) ==
    IF i > Len(l) \/ i > Len(r) THEN cmp_int(Len(l), Len(r))
    ELSE Let(ord_any(hp, l[i], r[i], stk), LAMBDA c :
         IF c # "Equal" THEN c ELSE ord_slice(hp, l, r, i + 1, stk))

\* the loop shared by Ord for RbHash, RbFields and RbObject: the two maps
\* have the same length; compare key then value at each index from i
ord_pairs(hp, l, r, i, stk) ==
    IF i > Len(l) THEN "Equal"
    ELSE Let(ord_any(hp, l[i][1], r[i][1], stk), LAMBDA c0 :
         IF c0 # "Equal" THEN c0
         ELSE Let(ord_any(hp, l[i][2], r[i][2], stk), LAMBDA c1 :
              IF c1 # "Equal" THEN c1 ELSE ord_pairs(hp, l, r, i + 1, stk)))

\* Ord for RbHash and RbFields: length first, then the pairs; the default
\* of a hash takes no part
ord_map(hp, l, r, stk) ==
    IF Len(l) # Len(r) THEN cmp_int(Len(l), Len(r)) ELSE ord_pairs(hp, l, r, 1, stk)

\* derived Ord for RbRef
ord_ref(hp, l, r, stk) ==
    IF l.k # r.k THEN cmp_int(ref_decl(l.k), ref_decl(r.k))
    ELSE CASE l.k = "Float" -> float_cmp(l.num, r.num)
           [] l.k = "BigInt" -> bigint_cmp(l.num, r.num)
           [] l.k = "Array" -> ord_slice(hp, l.items, r.items, 1, stk)
           [] l.k \in {"Str", "ClassRef", "ModuleRef", "ClassModuleRef"} ->
                cmp_bytes(l.s, r.s)
           [] l.k = "StrI" ->
                Let(cmp_bytes(l.s, r.s), LAMBDA c0 :
                IF c0 # "Equal" THEN c0 ELSE ord_map(hp, l.pairs, r.pairs, stk))
           [] l.k = "Regex" -> then_cmp(cmp_bytes(l.s, r.s), cmp_u32(l.flags, r.flags))
           [] l.k = "RegexI" ->
                Let(then_cmp(cmp_bytes(l.s, r.s), cmp_u32(l.flags, r.flags)), LAMBDA c0 :
                IF c0 # "Equal" THEN c0 ELSE ord_map(hp, l.pairs, r.pairs, stk))
           [] l.k = "Hash" -> ord_map(hp, l.pairs, r.pairs, stk)
           [] l.k \in {"Struct", "Object"} ->
                Let(cmp_bytes(l.name, r.name), LAMBDA c0 :
                IF c0 # "Equal" THEN c0 ELSE ord_map(hp, l.pairs, r.pairs, stk))
           [] l.k = "UserData" -> then_cmp(cmp_bytes(l.name, r.name), cmp_bytes(l.s, r.s))
           [] OTHER -> \* Data, UserClass, UserMarshal, Extended: name, then payload
                Let(cmp_bytes(l.name, r.name), LAMBDA c0 :
                IF c0 # "Equal" THEN c0 ELSE ord_any(hp, l.items[1], r.items[1], stk))

(***************************************************************************)
(* RbWriter (serialize.rs)                                                 *)
(*                                                                         *)
(* A writer is a record of the struct's fields plus                        *)
(*   sz      the sum of the sizes the write_* calls have returned so far   *)
(*   status  "ok", or "overflow" once a comparison inside object_map has   *)
(*           exhausted the stack (the process is then gone and nothing     *)
(*           more is written)                                              *)
(*   log     a record of what write_ref and write_symbol did, in order:    *)
(*           [ev, h, s, idx, pos] with ev in "object", "object_ref",       *)
(*           "symbol", "symbol_ref" and pos the offset in dst of the tag   *)
(* object_map (a BTreeMap) is the sequence of its entries [key, idx] in    *)
(* key order, which is how a B-tree leaf stores and searches them.         *)
(***************************************************************************)
RbWriter_new ==
    [dst |-> <<>>, symbol_map |-> <<>>, symbol_next |-> 0,
     object_map |-> <<>>, object_next |-> 0,
     sz |-> 0, status |-> "ok", log |-> <<>>]

\* self.dst.write_all(bytes)
write_all(w, bytes) == IF w.status # "ok" THEN w ELSE [w EXCEPT !.dst = @ \o bytes]

\* `sz += n` / the usize a write_* call returns
add_sz(w, n) == IF w.status # "ok" THEN w ELSE [w EXCEPT !.sz = @ + n]

write_byte(w, b) == add_sz(write_all(w, <<b>>), 1)

\* count_bytes, over the 5-byte buffer b (b[i+1] is the code's b[i])
count_bytes(b) ==
    Let({i \in 1..(Len(b) - 1) : b[i + 1] = 0}, LAMBDA Z :
    IF Z # {} THEN CHOOSE i \in Z : \A j \in Z : i <= j ELSE Len(b))

write_int(w, v) ==
    IF v = 0 THEN write_byte(w, 0)
    ELSE IF v >= 1 /\ v <= 122 THEN write_byte(w, as_u8(v) + 5)
    ELSE IF v >= -123 /\ v <= -1 THEN write_byte(w, as_u8(v - 5))
    ELSE Let(<<0>> \o to_le_bytes(v), LAMBDA buf0 :
         Let(count_bytes(buf0), LAMBDA sz :
         Let(IF v > 0 THEN as_u8(sz - 1) ELSE as_u8((-sz) + 1), LAMBDA b0 :
         Let([buf0 EXCEPT ![1] = b0], LAMBDA bytes :
            add_sz(write_all(w, SubSeq(bytes, 1, sz)), sz)))))

\* write_len_bytes, were it to return data.len() alone, without the size of
\* the length varint
write_len_bytes_data_only(w, data) ==
    Let(write_int(w, Len(data)), LAMBDA w1 :
    IF w1.status # "ok" THEN w1
    ELSE [write_all(w1, data) EXCEPT !.sz = w.sz + Len(data)])

write_len_bytes(w, data) ==
    Let(write_int(w, Len(data)), LAMBDA w1 :
    add_sz(write_all(w1, data), Len(data)))

\* digits of a natural number, as ASCII
RECURSIVE digits(_)
digits(n) == IF n < 10 THEN <<48 + n>> ELSE Append(digits(n \div 10), 48 + (n % 10))

\* f64::to_string for a finite value: the shortest decimal that reads back
\* as the same value, which for q * 10^(-e) is its own digits
float_to_string(f) ==
    Let(IF f.neg THEN <<45>> ELSE <<>>, LAMBDA sign :
    Let(digits(f.q), LAMBDA ds :
    Let([i \in 1..(IF Len(ds) > f.e THEN 0 ELSE f.e + 1 - Len(ds)) |-> 48] \o ds, LAMBDA pad :
    Let(Len(pad) - f.e, LAMBDA n :
       IF f.e = 0 THEN sign \o ds
       ELSE sign \o SubSeq(pad, 1, n) \o <<46>> \o SubSeq(pad, n + 1, Len(pad))))))

write_float(w, v) ==
    IF v.inf
    THEN (IF v.neg THEN write_len_bytes(w, <<45, 105, 110, 102>>)
          ELSE write_len_bytes(w, <<105, 110, 102>>))
    ELSE IF v.nan THEN write_len_bytes(w, <<110, 97, 110>>)
    ELSE write_len_bytes(w, float_to_string(v))

\* write_symbol, were the index taken after the counter is advanced (the
\* first symbol gets 1)
write_symbol_from_one(w, sym) ==
    IF w.status # "ok" THEN w
    ELSE IF sym \in DOMAIN w.symbol_map
    THEN Let([w EXCEPT !.log = Append(@, [ev |-> "symbol_ref", h |-> 0, s |-> sym,
                                                 idx |-> w.symbol_map[sym],
                                                 pos |-> Len(w.dst)])], LAMBDA w1 :
            write_int(write_byte(w1, T_SYMBOL_REF), w.symbol_map[sym]))
    ELSE Let([w EXCEPT !.symbol_map = (sym :> (w.symbol_next + 1)) @@ @,
                             !.symbol_next = @ + 1,
                             !.log = Append(@, [ev |-> "symbol", h |-> 0, s |-> sym,
                                                idx |-> w.symbol_next + 1,
                                                pos |-> Len(w.dst)])], LAMBDA w1 :
            write_len_bytes(write_byte(w1, T_SYMBOL), sym))

write_symbol(w, sym) ==
    IF w.status # "ok" THEN w
    ELSE IF sym \in DOMAIN w.symbol_map
    THEN Let([w EXCEPT !.log = Append(@, [ev |-> "symbol_ref", h |-> 0, s |-> sym,
                                                 idx |-> w.symbol_map[sym],
                                                 pos |-> Len(w.dst)])], LAMBDA w1 :
            write_int(write_byte(w1, T_SYMBOL_REF), w.symbol_map[sym]))
    ELSE Let([w EXCEPT !.symbol_map = (sym :> w.symbol_next) @@ @,
                             !.symbol_next = @ + 1,
                             !.log = Append(@, [ev |-> "symbol", h |-> 0, s |-> sym,
                                                idx |-> w.symbol_next,
                                                pos |-> Len(w.dst)])], LAMBDA w1 :
            write_len_bytes(write_byte(w1, T_SYMBOL), sym))

\* sym_e: RbSymbol::from("E")
sym_e == <<69>>

write_et(w) == write_byte(write_symbol(write_byte(w, 6), sym_e), T_TRUE)

\* BTreeMap::get / the search of BTreeMap::insert in one leaf: compare the
\* wanted key with the stored keys in ascending order, stop at the first
\* that is not smaller.  Result: [found, at, overflow].
RECURSIVE object_map_search(_, _, _, _)
object_map_search(hp, om, h, i) ==
    IF i > Len(om) THEN [found |-> FALSE, at |-> i, overflow |-> FALSE]
    ELSE Let(ord_rc(hp, h, om[i].key, {}), LAMBDA c :
         CASE c = "Greater" -> object_map_search(hp, om, h, i + 1)
           [] c = "Equal" -> [found |-> TRUE, at |-> i, overflow |-> FALSE]
           [] c = "Less" -> [found |-> FALSE, at |-> i, overflow |-> FALSE]
           [] OTHER -> [found |-> FALSE, at |-> i, overflow |-> TRUE])

\* self.object_map.insert(entry.clone(), self.object_next) at the place the
\* search found
object_map_insert(om, at, h, idx) ==
    SubSeq(om, 1, at - 1) \o <<[key |-> h, idx |-> idx]>> \o SubSeq(om, at, Len(om))

RECURSIVE write_entry(_, _, _), write_ref(_, _, _), write_items(_, _, _, _),
          write_pairs_from(_, _, _, _), write_fields_from(_, _, _, _)

write_entry(hp, w, entry) ==
    CASE entry.t = "Int" -> write_int(write_byte(w, T_INT), entry.i)
      [] entry.t = "True" -> write_byte(w, T_TRUE)
      [] entry.t = "False" -> write_byte(w, T_FALSE)
      [] entry.t = "Nil" -> write_byte(w, T_NIL)
      [] entry.t = "Symbol" -> write_symbol(w, entry.s)
      [] OTHER -> write_ref(hp, w, entry.h)

\* for item in v.iter() { sz += self.write_entry(item)?; }
write_items(hp, w, items, i) ==
    IF i > Len(items) THEN w
    ELSE write_items(hp, write_entry(hp, w, items[i]), items, i + 1)

\* the loop of write_pairs and of the Hash arm: write_entry on key and value
write_pairs_from(hp, w, pairs, i) ==
    IF i > Len(pairs) THEN w
    ELSE write_pairs_from(hp,
            write_entry(hp, write_entry(hp, w, pairs[i][1]), pairs[i][2]),
            pairs, i + 1)

write_pairs(hp, w, pairs) == write_pairs_from(hp, write_int(w, Len(pairs)), pairs, 1)

\* the loop of write_object: write_symbol on the key, write_entry on the value
write_fields_from(hp, w, pairs, i) ==
    IF i > Len(pairs) THEN w
    ELSE write_fields_from(hp,
            write_entry(hp, write_symbol(w, pairs[i][1].s), pairs[i][2]),
            pairs, i + 1)

write_object(hp, w, obj) ==
    write_fields_from(hp, write_int(write_symbol(w, obj.name), Len(obj.pairs)),
                      obj.pairs, 1)

write_typed_data(hp, w, name, data, type_byte) ==
    write_entry(hp, write_symbol(write_byte(w, type_byte), name), data)

\* the payload arms of write_ref, for the cell v
write_payload(hp, w, v) ==
    CASE v.k = "Float" -> write_float(write_byte(w, T_FLOAT), v.num)
      [] v.k = "BigInt" ->
            Let(to_bytes_le(v.num), LAMBDA bytes :
            Let(<<T_BIGNUM, IF is_negative(v.num) THEN 45 ELSE 43>>, LAMBDA b2 :
            Let(add_sz(write_all(w, b2), Len(b2)), LAMBDA w1 :
            Let(write_int(w1, Len(bytes) \div 2), LAMBDA w2 :
               add_sz(write_all(w2, bytes), Len(bytes))))))
      [] v.k = "Array" ->
            write_items(hp, write_int(write_byte(w, T_ARRAY), Len(v.items)), v.items, 1)
      [] v.k = "Str" ->
            Let(<<T_INSTANCE, T_STRING>>, LAMBDA prefix :
            write_et(write_len_bytes(add_sz(write_all(w, prefix), Len(prefix)), v.s)))
      [] v.k = "StrI" ->
            Let(<<T_INSTANCE, T_STRING>>, LAMBDA prefix :
            write_pairs(hp, write_len_bytes(add_sz(write_all(w, prefix), Len(prefix)), v.s),
                        v.pairs))
      [] v.k = "Regex" ->
            Let(<<T_INSTANCE, T_REGEX>>, LAMBDA prefix :
            write_et(write_byte(
                write_len_bytes(add_sz(write_all(w, prefix), Len(prefix)), v.s),
                as_u8(v.flags))))
      [] v.k = "RegexI" ->
            Let(<<T_INSTANCE, T_REGEX>>, LAMBDA prefix :
            write_pairs(hp, write_byte(
                write_len_bytes(add_sz(write_all(w, prefix), Len(prefix)), v.s),
                as_u8(v.flags)), v.pairs))
      [] v.k = "Hash" ->
            Let(IF v.def # <<>> THEN write_byte(w, T_HASH_DEFAULT)
                      ELSE write_byte(w, T_HASH), LAMBDA w1 :
            Let(write_pairs_from(hp, write_int(w1, Len(v.pairs)), v.pairs, 1), LAMBDA w2 :
               IF v.def # <<>> THEN write_entry(hp, w2, v.def[1]) ELSE w2))
      [] v.k = "Object" -> write_object(hp, write_byte(w, T_OBJECT), v)
      [] v.k = "Struct" -> write_object(hp, write_byte(w, T_STRUCT), v)
      [] v.k = "ClassRef" -> write_len_bytes(write_byte(w, T_CLASS), v.s)
      [] v.k = "ModuleRef" -> write_len_bytes(write_byte(w, T_MODULE), v.s)
      [] v.k = "ClassModuleRef" -> write_len_bytes(write_byte(w, T_CLASS_MODULE), v.s)
      [] v.k = "Data" -> write_typed_data(hp, w, v.name, v.items[1], T_DATA)
      [] v.k = "UserClass" -> write_typed_data(hp, w, v.name, v.items[1], T_USER_CLASS)
      [] v.k = "UserData" ->
            write_len_bytes(write_symbol(write_byte(w, T_USER_DEFINED), v.name), v.s)
      [] v.k = "UserMarshal" -> write_typed_data(hp, w, v.name, v.items[1], T_USER_MARSHAL)
      [] OTHER -> write_typed_data(hp, w, v.name, v.items[1], T_EXTENDED)

write_ref(hp, w, entry) ==
    IF w.status # "ok" THEN w
    ELSE Let(object_map_search(hp, w.object_map, entry, 1), LAMBDA look :
         IF look.overflow THEN [w EXCEPT !.status = "overflow"]
         ELSE IF look.found
         THEN Let(w.object_map[look.at].idx, LAMBDA obj_index :
              Let([w EXCEPT !.log = Append(@, [ev |-> "object_ref", h |-> entry,
                                                      s |-> <<>>, idx |-> obj_index,
                                                      pos |-> Len(w.dst)])], LAMBDA w1 :
                 write_int(write_byte(w1, T_OBJECT_REF), obj_index)))
         ELSE Let([w EXCEPT
                            !.object_map = object_map_insert(@, look.at, entry,
                                                             w.object_next),
                            !.object_next = @ + 1,
                            !.log = Append(@, [ev |-> "object", h |-> entry, s |-> <<>>,
                                               idx |-> w.object_next,
                                               pos |-> Len(w.dst)])], LAMBDA w1 :
                 write_payload(hp, w1, hp[entry])))

\* RbWriter::write: the header, then the entry; returns write_entry's size + 2
write(hp, w, data) ==
    add_sz(write_entry(hp, write_all(w, <<4, 8>>), data), 2)

\* to_writer(dst, value)
to_writer(hp, value) == write(hp, RbWriter_new, value)

(***************************************************************************)
(* RbReader (deserialize.rs)                                               *)
(*                                                                         *)
(* A reader is a record of the struct's fields (src with the count `pos`   *)
(* of bytes already consumed, symbols, objects) plus                       *)
(*   heap    the cells, to which the reader adds the ones it allocates     *)
(*   oc      whether `-u_val` is compiled with overflow checks             *)
(*   status  "ok", the name of the ThurgoodError returned, or "panic"      *)
(*   earg    the argument of the error                                     *)
(*   int, byte, bytes, sym, any, cell, fields                              *)
(*           the value returned by the last read_* call of that type       *)
(*   log     what the reader did with the two tables, in order:            *)
(*           [ev, idx, h, early, pos] with ev in "object" (alloc_object),  *)
(*           "object_ref", "symbol", "symbol_ref", "set" (set_object,    *)
(*           with the handle it returns); pos is the offset of the tag     *)
(*           (for "set": the end of the payload); early says that an       *)
(*           object_ref met a slot still Nil                               *)
(* allow_bin_strings is the field lib.rs documents and its test helper    *)
(* reader_parse_loose assigns; the struct does not declare it and no       *)
(* method of the reader consults it.                                       *)
(* A usize that came from a negative i32 (`as usize`) is kept as that      *)
(* negative number: it stands for a value above isize::MAX.                *)
(***************************************************************************)
RbReader_new(src, hp, oc) ==
    [src |-> src, pos |-> 0, symbols |-> <<>>, objects |-> <<>>,
     heap |-> hp, oc |-> oc, status |-> "ok", earg |-> 0,
     int |-> 0, byte |-> 0, bytes |-> <<>>, sym |-> <<>>, any |-> AnyNil,
     cell |-> RbRef("Float"), fields |-> <<>>, log |-> <<>>,
     allow_bin_strings |-> FALSE]

fail(r, status, arg) == [r EXCEPT !.status = status, !.earg = arg]

\* read_exact, were it `read`: a source that ends early fills what it has
\* and leaves the rest of the zeroed buffer, without an error
read_short(r, n) ==
    IF r.status # "ok" THEN r
    ELSE IF n > Len(r.src) - r.pos
    THEN [r EXCEPT !.bytes = Slice(r.src, r.pos, Len(r.src) - r.pos)
                              \o [i \in 1..(n - (Len(r.src) - r.pos)) |-> 0],
                   !.pos = Len(r.src)]
    ELSE [r EXCEPT !.bytes = Slice(r.src, r.pos, n), !.pos = @ + n]

\* self.src.read_exact(&mut buf[0..n])
read_exact(r, n) ==
    IF r.status # "ok" THEN r
    ELSE IF n > Len(r.src) - r.pos THEN fail(r, "IO", 0)
    ELSE [r EXCEPT !.bytes = Slice(r.src, r.pos, n), !.pos = @ + n]

read_byte(r) ==
    Let(read_exact(r, 1), LAMBDA r1 :
    IF r1.status # "ok" THEN r1 ELSE [r1 EXCEPT !.byte = r1.bytes[1]])

\* vec![0u8; len]: a length above isize::MAX panics (capacity overflow)
vec_alloc(r, len) == IF r.status = "ok" /\ len < 0 THEN fail(r, "panic", len) ELSE r

read_int(r) ==
    Let(read_exact(r, 1), LAMBDA r1 :
    IF r1.status # "ok" THEN r1
    ELSE Let(r1.bytes[1], LAMBDA b :
         Let(b >= 128, LAMBDA is_neg :
         IF b <= 4 \/ b >= 252
         THEN Let(IF is_neg THEN -as_i8(b) ELSE as_i8(b), LAMBDA bytes_to_read :
              IF bytes_to_read = 0 THEN [r1 EXCEPT !.int = 0]
              ELSE Let(read_exact(r1, bytes_to_read), LAMBDA r2 :
                   IF r2.status # "ok" THEN r2
                   ELSE Let(r2.bytes \o [i \in 1..(4 - bytes_to_read) |-> 0], LAMBDA buf4 :
                        Let(from_le_bytes(buf4), LAMBDA u_val :
                        IF is_neg
                        THEN (IF u_val = I32_MIN
                              THEN (IF r2.oc THEN fail(r2, "panic", u_val)
                                    ELSE [r2 EXCEPT !.int = u_val])
                              ELSE [r2 EXCEPT !.int = -u_val])
                        ELSE [r2 EXCEPT !.int = u_val]))))
         ELSE Let(as_i8(b), LAMBDA b0 :
              IF is_neg THEN [r1 EXCEPT !.int = b0 + 5] ELSE [r1 EXCEPT !.int = b0 - 5]))))

\* std::str::from_utf8(buf).is_ok(), checked from index i on
RECURSIVE utf8_from(_, _)
utf8_from(b, i) ==
    LET cont(j) == j <= Len(b) /\ b[j] >= 128 /\ b[j] <= 191 IN
    LET in(j, lo, hi) == j <= Len(b) /\ b[j] >= lo /\ b[j] <= hi IN
    Let(b[i], LAMBDA c :
    IF i > Len(b) THEN TRUE
    ELSE IF c < 128 THEN utf8_from(b, i + 1)
    ELSE IF c >= 194 /\ c <= 223 THEN cont(i + 1) /\ utf8_from(b, i + 2)
    ELSE IF c = 224 THEN in(i + 1, 160, 191) /\ cont(i + 2) /\ utf8_from(b, i + 3)
    ELSE IF c = 237 THEN in(i + 1, 128, 159) /\ cont(i + 2) /\ utf8_from(b, i + 3)
    ELSE IF c >= 225 /\ c <= 239 THEN cont(i + 1) /\ cont(i + 2) /\ utf8_from(b, i + 3)
    ELSE IF c = 240
    THEN in(i + 1, 144, 191) /\ cont(i + 2) /\ cont(i + 3) /\ utf8_from(b, i + 4)
    ELSE IF c >= 241 /\ c <= 243
    THEN cont(i + 1) /\ cont(i + 2) /\ cont(i + 3) /\ utf8_from(b, i + 4)
    ELSE IF c = 244
    THEN in(i + 1, 128, 143) /\ cont(i + 2) /\ cont(i + 3) /\ utf8_from(b, i + 4)
    ELSE FALSE)

\* bytes_to_string(buf).is_ok()
bytes_to_string_ok(b) == utf8_from(b, 1)

read_len_bytes(r) ==
    Let(read_int(r), LAMBDA r1 :
    Let(vec_alloc(r1, r1.int), LAMBDA r2 :
    IF r2.status # "ok" THEN r2 ELSE read_exact(r2, r1.int)))

read_symbol(r) ==
    Let(read_len_bytes(r), LAMBDA r1 :
    IF r1.status # "ok" THEN r1
    ELSE [r1 EXCEPT !.symbols = Append(@, r1.bytes),
                    !.any = AnySymbol(r1.bytes),
                    !.log = Append(@, [ev |-> "symbol", idx |-> Len(r1.symbols), h |-> 0,
                                       early |-> FALSE, pos |-> r.pos - 1])])

\* read_symbol_ref, were the bound test `symbol_index <= self.symbols.len()`:
\* the index equal to the length passes the test and the slice index panics
read_symbol_ref_inclusive(r) ==
    Let(read_int(r), LAMBDA r1 :
    Let(r1.int, LAMBDA symbol_index :
    IF r1.status # "ok" THEN r1
    ELSE IF symbol_index >= 0 /\ symbol_index < Len(r1.symbols)
    THEN [r1 EXCEPT !.any = AnySymbol(r1.symbols[symbol_index + 1]),
                    !.log = Append(@, [ev |-> "symbol_ref", idx |-> symbol_index, h |-> 0,
                                       early |-> FALSE, pos |-> r.pos - 1])]
    ELSE IF symbol_index = Len(r1.symbols) THEN fail(r1, "panic", symbol_index)
    ELSE fail(r1, "BadSymbolRef", symbol_index)))

read_symbol_ref(r) ==
    Let(read_int(r), LAMBDA r1 :
    Let(r1.int, LAMBDA symbol_index :
    IF r1.status # "ok" THEN r1
    ELSE IF symbol_index >= 0 /\ symbol_index < Len(r1.symbols)
    THEN [r1 EXCEPT !.any = AnySymbol(r1.symbols[symbol_index + 1]),
                    !.log = Append(@, [ev |-> "symbol_ref", idx |-> symbol_index, h |-> 0,
                                       early |-> FALSE, pos |-> r.pos - 1])]
    ELSE fail(r1, "BadSymbolRef", symbol_index)))

\* RcType::new(cell): the new handle is Len(heap) + 1
rc_new(r, cell) == [r EXCEPT !.heap = Append(@, cell)]

\* RbRef::from(1.0f32), the throwaway value of read_object_ref
placeholder == [Float(FloatVal(FALSE, 1, 0)) EXCEPT !.ph = TRUE]

\* read_object_ref, were it to hand out a copy of the slot's cell instead of
\* the slot's handle (`RbAny::from((**rc).clone())` for `base.clone()`)
read_object_ref_copy(r) ==
    Let(read_int(r), LAMBDA r1 :
    Let(r1.int, LAMBDA index :
    IF r1.status # "ok" THEN r1
    ELSE IF index >= 0 /\ index < Len(r1.objects)
    THEN Let(r1.objects[index + 1], LAMBDA base :
         Let(IF is_nil(base)
                   THEN [rc_new(r1, placeholder) EXCEPT
                            !.objects[index + 1] = AnyRef(Len(r1.heap) + 1)]
                   ELSE rc_new(r1, r1.heap[base.h]), LAMBDA r2 :
         Let(IF is_nil(base) THEN r2.objects[index + 1] ELSE AnyRef(Len(r2.heap)), LAMBDA out :
            [r2 EXCEPT !.any = out,
                       !.log = Append(@, [ev |-> "object_ref", idx |-> index,
                                          h |-> out.h,
                                          early |-> is_nil(base), pos |-> r.pos - 1])])))
    ELSE fail(r1, "BadObjectRef", index)))

read_object_ref(r) ==
    Let(read_int(r), LAMBDA r1 :
    Let(r1.int, LAMBDA index :
    IF r1.status # "ok" THEN r1
    ELSE IF index >= 0 /\ index < Len(r1.objects)
    THEN Let(r1.objects[index + 1], LAMBDA base :
         Let(IF is_nil(base)
                   THEN [rc_new(r1, placeholder) EXCEPT
                            !.objects[index + 1] = AnyRef(Len(r1.heap) + 1)]
                   ELSE r1, LAMBDA r2 :
            [r2 EXCEPT !.any = r2.objects[index + 1],
                       !.log = Append(@, [ev |-> "object_ref", idx |-> index,
                                          h |-> r2.objects[index + 1].h,
                                          early |-> is_nil(base), pos |-> r.pos - 1])]))
    ELSE fail(r1, "BadObjectRef", index)))

\* alloc_object: the new slot is Len(objects) before the push
alloc_object(r) ==
    [r EXCEPT !.objects = Append(@, AnyNil),
              !.log = Append(@, [ev |-> "object", idx |-> Len(r.objects), h |-> 0,
                                 early |-> FALSE, pos |-> r.pos - 1])]

\* set_object, were it to take the "easy way" (a new Rc in the slot) also
\* when the slot's handle has already been handed out
set_object_realloc(r, index, obj) ==
    Let([rc_new(r, obj) EXCEPT !.objects[index + 1] = AnyRef(Len(r.heap) + 1)], LAMBDA r1 :
       [r1 EXCEPT !.any = r1.objects[index + 1],
                  !.log = Append(@, [ev |-> "set", idx |-> index,
                                     h |-> r1.objects[index + 1].h,
                                     early |-> FALSE, pos |-> r.pos])])

set_object(r, index, obj) ==
    Let(IF is_nil(r.objects[index + 1])
              THEN [rc_new(r, obj) EXCEPT !.objects[index + 1] = AnyRef(Len(r.heap) + 1)]
              ELSE [r EXCEPT !.heap[r.objects[index + 1].h] = obj], LAMBDA r1 :
       [r1 EXCEPT !.any = r1.objects[index + 1],
                  !.log = Append(@, [ev |-> "set", idx |-> index,
                                     h |-> r1.objects[index + 1].h,
                                     early |-> FALSE, pos |-> r.pos])])

\* is_utf8, were it to look at the key only: any pair under E
is_utf8_any_value(pairs) ==
    \E i \in 1..Len(pairs) : pairs[i][1].s = sym_e

\* is_utf8(pairs): some pair is E => True
is_utf8(pairs) ==
    \E i \in 1..Len(pairs) : pairs[i][1].s = sym_e /\ pairs[i][2].t = "True"

\* insert, were a key already present to move to the end with its new value
fields_insert_at_end(pairs, key, value) ==
    Append(SelectSeq(pairs, LAMBDA p : p[1].s # key), <<AnySymbol(key), value>>)

\* IndexMap<RbSymbol, RbAny>::insert: a key already present keeps its place
\* and takes the new value
fields_insert(pairs, key, value) ==
    IF \E i \in 1..Len(pairs) : pairs[i][1].s = key
    THEN Let(CHOOSE j \in 1..Len(pairs) : pairs[j][1].s = key, LAMBDA i :
            [pairs EXCEPT ![i] = <<AnySymbol(key), value>>])
    ELSE Append(pairs, <<AnySymbol(key), value>>)

\* extend_from_pairs: insert every pair, in order, from index i on
RECURSIVE extend_from_pairs(_, _, _)
extend_from_pairs(fields, pairs, i) ==
    IF i > Len(pairs) THEN fields
    ELSE extend_from_pairs(fields_insert(fields, pairs[i][1].s, pairs[i][2]), pairs, i + 1)

\* the text of a float, up to the first NUL
until_nul(b) ==
    Let({i \in 1..Len(b) : b[i] = 0}, LAMBDA Z :
    IF Z = {} THEN b ELSE SubSeq(b, 1, (CHOOSE i \in Z : \A j \in Z : i <= j) - 1))

RECURSIVE digits_value(_)
digits_value(ds) ==
    IF Len(ds) = 0 THEN 0
    ELSE digits_value(SubSeq(ds, 1, Len(ds) - 1)) * 10 + (ds[Len(ds)] - 48)

RECURSIVE normal_float(_, _, _)
normal_float(neg, q, e) ==
    IF e > 0 /\ q % 10 = 0 THEN normal_float(neg, q \div 10, e - 1) ELSE FloatVal(neg, q, e)

\* str::parse::<f64> on plain decimal numerals: [+-] digits [. digits], with
\* at least one digit.  Exponents and the spelled-out specials that the
\* standard parser also takes are outside this model and read as errors.
parse_f64(t) ==
    Let(Len(t) > 0 /\ t[1] \in {43, 45}, LAMBDA signed :
    Let(Len(t) > 0 /\ t[1] = 45, LAMBDA neg :
    Let(IF signed THEN SubSeq(t, 2, Len(t)) ELSE t, LAMBDA body :
    Let({i \in 1..Len(body) : body[i] = 46}, LAMBDA Dots :
    Let(IF Dots = {} THEN Len(body) + 1 ELSE CHOOSE i \in Dots : TRUE, LAMBDA dot :
    Let(SubSeq(body, 1, dot - 1), LAMBDA ip :
    Let(SubSeq(body, dot + 1, Len(body)), LAMBDA fp :
    LET isdig(s) == \A i \in 1..Len(s) : s[i] >= 48 /\ s[i] <= 57 IN
       IF Cardinality(Dots) <= 1 /\ isdig(ip) /\ isdig(fp) /\ Len(ip) + Len(fp) > 0
       THEN [ok |-> TRUE, f |-> normal_float(neg, digits_value(ip \o fp), Len(fp))]
       ELSE [ok |-> FALSE, f |-> FloatNan])))))))

\* read_float: sets r.cell to the Float
read_float(r) ==
    Let(read_len_bytes(r), LAMBDA r1 :
    Let(until_nul(r1.bytes), LAMBDA text :
    Let(parse_f64(text), LAMBDA p :
    IF r1.status # "ok" THEN r1
    ELSE IF ~bytes_to_string_ok(text) THEN fail(r1, "Utf8", 0)
    ELSE IF text = <<105, 110, 102>> THEN [r1 EXCEPT !.cell = Float(FloatInf(FALSE))]
    ELSE IF text = <<45, 105, 110, 102>> THEN [r1 EXCEPT !.cell = Float(FloatInf(TRUE))]
    ELSE IF text = <<110, 97, 110>> THEN [r1 EXCEPT !.cell = Float(FloatNan)]
    ELSE IF p.ok THEN [r1 EXCEPT !.cell = Float(p.f)]
    ELSE fail(r1, "ParseFloat", 0))))

read_bignum(r) ==
    Let(read_byte(r), LAMBDA r1 :
    Let(r1.byte, LAMBDA c_sign :
    Let(read_int(r1), LAMBDA r2 :
    Let(r2.int, LAMBDA n :
    Let(vec_alloc(r2, n), LAMBDA r3 :
    Let(IF r3.status = "ok" /\ n > Len(r.src) THEN fail(r3, "IO", 0)
              ELSE read_exact(r3, n * 2), LAMBDA r4 :
    IF r4.status # "ok" THEN r4
    ELSE [r4 EXCEPT !.cell = BigInt(from_bytes_le(c_sign # 43, r4.bytes))]))))))

read_class_mod_ref(r) ==
    Let(read_len_bytes(r), LAMBDA r1 :
    IF r1.status # "ok" THEN r1
    ELSE IF ~bytes_to_string_ok(r1.bytes) THEN fail(r1, "Utf8", 0)
    ELSE r1)

read_regex(r) ==
    Let(read_len_bytes(r), LAMBDA r1 :
    Let(read_byte(r1), LAMBDA r2 :
    IF r2.status # "ok" THEN r2
    ELSE IF ~bytes_to_string_ok(r1.bytes) THEN fail(r2, "Utf8", 0)
    ELSE [r2 EXCEPT !.cell = Regex(r1.bytes, r2.byte)]))

read_string(r) ==
    Let(read_len_bytes(r), LAMBDA r1 :
    IF r1.status # "ok" THEN r1
    ELSE IF ~bytes_to_string_ok(r1.bytes) THEN fail(r1, "Utf8", 0)
    ELSE [r1 EXCEPT !.cell = Str(r1.bytes)])

(***************************************************************************)
(* Equality and hashing of RbAny, as the IndexMap of an RbHash uses them   *)
(***************************************************************************)
\* RbRef::partial_eq: "true", "false", or "None" for two containers alike
partial_eq(l, r) ==
    LET b(x) == IF x THEN "true" ELSE "false" IN
    CASE l.k = "BigInt" /\ r.k = "BigInt" -> b(l.num = r.num)
      [] l.k = "ClassModuleRef" /\ r.k \in {"ClassModuleRef", "ClassRef", "ModuleRef"} ->
            b(l.s = r.s)
      [] l.k \in {"ClassRef", "ModuleRef"} /\ r.k = "ClassModuleRef" -> b(l.s = r.s)
      [] l.k = "Float" /\ r.k = "Float" -> b(float_partial_cmp(l.num, r.num) = "Equal")
      [] l.k = "Regex" /\ r.k = "Regex" -> b(l.s = r.s /\ l.flags = r.flags)
      [] l.k = "Str" /\ r.k = "Str" -> b(l.s = r.s)
      [] l.k = "UserData" /\ r.k = "UserData" -> b(l.name = r.name /\ l.s = r.s)
      [] OTHER -> IF l.k # r.k THEN "false" ELSE "None"

\* impl PartialEq for RbAny
any_eq(hp, a, b) ==
    CASE a.t = "Int" /\ b.t = "Int" -> a.i = b.i
      [] a.t = "Symbol" /\ b.t = "Symbol" -> a.s = b.s
      [] a.t = "Ref" /\ b.t = "Ref" ->
            Let(partial_eq(hp[a.h], hp[b.h]), LAMBDA result :
            IF result # "None" THEN result = "true" ELSE a.h = b.h)
      [] OTHER -> a.t = b.t

\* impl Hash for RbAny: what is fed to the hasher.  A Ref feeds its address,
\* anything else only its discriminant.  Two equal feeds hash alike; two
\* different feeds are taken to hash apart.
any_hash(a) == IF a.t = "Ref" THEN <<"ptr", a.h>> ELSE <<"discriminant", any_decl(a)>>

\* IndexMap<RbAny, RbAny>::insert: an entry with the same hash and an equal
\* key keeps its place and takes the new value; otherwise append
hash_insert(hp, pairs, key, value) ==
    LET same(i) == any_hash(pairs[i][1]) = any_hash(key) /\ any_eq(hp, pairs[i][1], key) IN
    IF \E i \in 1..Len(pairs) : same(i)
    THEN Let(CHOOSE j \in 1..Len(pairs) : same(j), LAMBDA i :
            [pairs EXCEPT ![i] = <<pairs[i][1], value>>])
    ELSE Append(pairs, <<key, value>>)

(***************************************************************************)
(* RbReader, the recursive descent                                         *)
(***************************************************************************)
RECURSIVE read_entry(_), read_ref(_, _), read_payload(_, _), read_entry_symbol(_),
          read_instance(_), read_pairs_loop(_, _, _), read_array_loop(_, _, _),
          read_hash_loop(_, _, _), read_rb_class(_), read_rb_object(_)

\* one step fewer to go; a count that came from a negative i32 never runs out
count_down(n) == IF n > 0 THEN n - 1 ELSE n

read_entry(r) ==
    Let(read_byte(r), LAMBDA r1 :
    Let(r1.byte, LAMBDA c :
    IF r1.status # "ok" THEN r1
    ELSE CASE c = T_TRUE -> [r1 EXCEPT !.any = AnyTrue]
           [] c = T_FALSE -> [r1 EXCEPT !.any = AnyFalse]
           [] c = T_NIL -> [r1 EXCEPT !.any = AnyNil]
           [] c = T_INT ->
                Let(read_int(r1), LAMBDA r2 :
                IF r2.status # "ok" THEN r2 ELSE [r2 EXCEPT !.any = AnyInt(r2.int)])
           [] c = T_SYMBOL -> read_symbol(r1)
           [] c = T_SYMBOL_REF -> read_symbol_ref(r1)
           [] c = T_OBJECT_REF -> read_object_ref(r1)
           [] OTHER -> read_ref(r1, c)))

\* read_entry_symbol: sets r.sym
read_entry_symbol(r) ==
    Let(read_entry(r), LAMBDA r1 :
    IF r1.status # "ok" THEN r1
    ELSE IF r1.any.t = "Symbol" THEN [r1 EXCEPT !.sym = r1.any.s]
    ELSE fail(r1, "UnexpectedType", 0))

\* read_pairs: `remaining` iterations to go, `result` the RbFields so far;
\* sets r.fields
read_pairs_loop(r, remaining, result) ==
    IF r.status # "ok" THEN r
    ELSE IF remaining = 0 THEN [r EXCEPT !.fields = result]
    ELSE Let(read_entry(r), LAMBDA r1 :
         Let(read_entry(r1), LAMBDA r2 :
         IF r1.status # "ok" THEN r1
         ELSE IF r1.any.t # "Symbol" THEN fail(r1, "UnexpectedType", 0)
         ELSE IF r2.status # "ok" THEN r2
         ELSE read_pairs_loop(r2, count_down(remaining),
                              fields_insert(result, r1.any.s, r2.any))))

read_pairs(r, count) == read_pairs_loop(r, count, <<>>)

\* the loop of read_array; sets r.cell
read_array_loop(r, remaining, data) ==
    IF r.status # "ok" THEN r
    ELSE IF remaining <= 0 THEN [r EXCEPT !.cell = Array(data)]
    ELSE Let(read_entry(r), LAMBDA r1 :
         IF r1.status # "ok" THEN r1
         ELSE read_array_loop(r1, remaining - 1, Append(data, r1.any)))

read_array(r) ==
    Let(read_int(r), LAMBDA r1 :
    IF r1.status # "ok" THEN r1 ELSE read_array_loop(r1, r1.int, <<>>))

\* the loop of read_hash; sets r.fields to the entries
read_hash_loop(r, remaining, nhash) ==
    IF r.status # "ok" THEN r
    ELSE IF remaining = 0 THEN [r EXCEPT !.fields = nhash]
    ELSE Let(read_entry(r), LAMBDA r1 :
         Let(read_entry(r1), LAMBDA r2 :
         IF r2.status # "ok" THEN r2
         ELSE read_hash_loop(r2, count_down(remaining),
                             hash_insert(r2.heap, nhash, r1.any, r2.any))))

read_hash(r, has_default) ==
    Let(read_int(r), LAMBDA r1 :
    Let(read_hash_loop(r1, r1.int, <<>>), LAMBDA r2 :
    Let(IF has_default THEN read_entry(r2) ELSE r2, LAMBDA r3 :
    IF r3.status # "ok" THEN r3
    ELSE [r3 EXCEPT !.cell = Hash(r2.fields, IF has_default THEN <<r3.any>> ELSE <<>>)])))

\* read_rb_class: sets r.sym to the name and r.any to the data
read_rb_class(r) ==
    Let(read_entry_symbol(r), LAMBDA r1 :
    Let(read_entry(r1), LAMBDA r2 :
    IF r2.status # "ok" THEN r2 ELSE [r2 EXCEPT !.sym = r1.sym]))

\* read_rb_object: sets r.cell to the object, as an Object
read_rb_object(r) ==
    Let(read_entry_symbol(r), LAMBDA r1 :
    Let(read_int(r1), LAMBDA r2 :
    Let(read_pairs(r2, r2.int), LAMBDA r3 :
    IF r3.status # "ok" THEN r3
    ELSE [r3 EXCEPT !.cell = Object(r1.sym, extend_from_pairs(<<>>, r3.fields, 1))])))

read_user_class(r) ==
    Let(read_rb_class(r), LAMBDA r1 :
    IF r1.status # "ok" THEN r1 ELSE [r1 EXCEPT !.cell = UserClass(r1.sym, r1.any)])

\* read_instance, were its default arm to return the error of read_ref's
\* default arm (BadTypeByte) for a byte that is not `"`, `/` or `o`
read_instance_type_byte(r) ==
    Let(read_byte(r), LAMBDA r0 :
    Let(r0.byte, LAMBDA type_byte :
    IF r0.status # "ok" THEN r0
    ELSE CASE type_byte = T_OBJECT ->
                Let(read_rb_object(r0), LAMBDA r1 :
                Let(read_int(r1), LAMBDA r2 :
                Let(read_pairs(r2, r2.int), LAMBDA r3 :
                IF r3.status # "ok" THEN r3
                ELSE [r3 EXCEPT !.cell = [r1.cell EXCEPT
                                             !.pairs = extend_from_pairs(@, r3.fields, 1)]])))
           [] type_byte = T_STRING ->
                Let(read_len_bytes(r0), LAMBDA r1 :
                Let(read_int(r1), LAMBDA r2 :
                Let(read_pairs(r2, r2.int), LAMBDA r3 :
                IF r3.status # "ok" THEN r3
                ELSE IF is_utf8(r3.fields)
                THEN (IF bytes_to_string_ok(r1.bytes) THEN [r3 EXCEPT !.cell = Str(r1.bytes)]
                      ELSE fail(r3, "Utf8", 0))
                ELSE [r3 EXCEPT !.cell = StrI(r1.bytes, r3.fields)])))
           [] type_byte = T_REGEX ->
                Let(read_len_bytes(r0), LAMBDA r1 :
                Let(read_int(r1), LAMBDA rf :
                Let(read_int(rf), LAMBDA r2 :
                Let(read_pairs(r2, r2.int), LAMBDA r3 :
                IF r3.status # "ok" THEN r3
                ELSE IF is_utf8(r3.fields)
                THEN (IF bytes_to_string_ok(r1.bytes)
                      THEN [r3 EXCEPT !.cell = Regex(r1.bytes, rf.int)]
                      ELSE fail(r3, "Utf8", 0))
                ELSE [r3 EXCEPT !.cell = RegexI(r1.bytes, rf.int, r3.fields)]))))
           [] OTHER -> fail(r0, "BadTypeByte", type_byte)))

read_instance(r) ==
    Let(read_byte(r), LAMBDA r0 :
    Let(r0.byte, LAMBDA type_byte :
    IF r0.status # "ok" THEN r0
    ELSE CASE type_byte = T_OBJECT ->
                Let(read_rb_object(r0), LAMBDA r1 :
                Let(read_int(r1), LAMBDA r2 :
                Let(read_pairs(r2, r2.int), LAMBDA r3 :
                IF r3.status # "ok" THEN r3
                ELSE [r3 EXCEPT !.cell = [r1.cell EXCEPT
                                             !.pairs = extend_from_pairs(@, r3.fields, 1)]])))
           [] type_byte = T_STRING ->
                Let(read_len_bytes(r0), LAMBDA r1 :
                Let(read_int(r1), LAMBDA r2 :
                Let(read_pairs(r2, r2.int), LAMBDA r3 :
                IF r3.status # "ok" THEN r3
                ELSE IF is_utf8(r3.fields)
                THEN (IF bytes_to_string_ok(r1.bytes) THEN [r3 EXCEPT !.cell = Str(r1.bytes)]
                      ELSE fail(r3, "Utf8", 0))
                ELSE [r3 EXCEPT !.cell = StrI(r1.bytes, r3.fields)])))
           [] type_byte = T_REGEX ->
                Let(read_len_bytes(r0), LAMBDA r1 :
                Let(read_int(r1), LAMBDA rf :
                Let(read_int(rf), LAMBDA r2 :
                Let(read_pairs(r2, r2.int), LAMBDA r3 :
                IF r3.status # "ok" THEN r3
                ELSE IF is_utf8(r3.fields)
                THEN (IF bytes_to_string_ok(r1.bytes)
                      THEN [r3 EXCEPT !.cell = Regex(r1.bytes, rf.int)]
                      ELSE fail(r3, "Utf8", 0))
                ELSE [r3 EXCEPT !.cell = RegexI(r1.bytes, rf.int, r3.fields)]))))
           [] OTHER -> fail(r0, "BadInstanceType", type_byte)))

\* the `match type_byte` of read_ref: sets r.cell
read_payload(r, type_byte) ==
    CASE type_byte = T_INSTANCE -> read_instance(r)
      [] type_byte = T_ARRAY -> read_array(r)
      [] type_byte = T_BIGNUM -> read_bignum(r)
      [] type_byte = T_CLASS ->
            Let(read_class_mod_ref(r), LAMBDA r1 :
            IF r1.status # "ok" THEN r1 ELSE [r1 EXCEPT !.cell = ClassRef(r1.bytes)])
      [] type_byte = T_MODULE ->
            Let(read_class_mod_ref(r), LAMBDA r1 :
            IF r1.status # "ok" THEN r1 ELSE [r1 EXCEPT !.cell = ModuleRef(r1.bytes)])
      [] type_byte = T_CLASS_MODULE ->
            Let(read_class_mod_ref(r), LAMBDA r1 :
            IF r1.status # "ok" THEN r1 ELSE [r1 EXCEPT !.cell = ClassModuleRef(r1.bytes)])
      [] type_byte = T_DATA ->
            Let(read_rb_class(r), LAMBDA r1 :
            IF r1.status # "ok" THEN r1 ELSE [r1 EXCEPT !.cell = Data(r1.sym, r1.any)])
      [] type_byte = T_FLOAT -> read_float(r)
      [] type_byte = T_HASH -> read_hash(r, FALSE)
      [] type_byte = T_HASH_DEFAULT -> read_hash(r, TRUE)
      [] type_byte = T_REGEX -> read_regex(r)
      [] type_byte = T_STRING -> read_string(r)
      [] type_byte = T_OBJECT -> read_rb_object(r)
      [] type_byte = T_STRUCT ->
            Let(read_rb_object(r), LAMBDA r1 :
            IF r1.status # "ok" THEN r1 ELSE [r1 EXCEPT !.cell.k = "Struct"])
      [] type_byte = T_USER_CLASS -> read_user_class(r)
      [] type_byte = T_USER_DEFINED ->
            Let(read_entry_symbol(r), LAMBDA r1 :
            Let(read_len_bytes(r1), LAMBDA r2 :
            IF r2.status # "ok" THEN r2 ELSE [r2 EXCEPT !.cell = UserData(r1.sym, r2.bytes)]))
      [] type_byte = T_USER_MARSHAL ->
            Let(read_rb_class(r), LAMBDA r1 :
            IF r1.status # "ok" THEN r1 ELSE [r1 EXCEPT !.cell = UserMarshal(r1.sym, r1.any)])
      [] OTHER -> fail(r, "BadTypeByte", type_byte)

\* read_ref, were the slot taken once the payload is read (children first)
read_ref_alloc_last(r, type_byte) ==
    IF type_byte = T_EXTENDED
    THEN Let(read_entry_symbol(r), LAMBDA r1 :
         Let(read_entry(r1), LAMBDA r2 :
         IF r2.status # "ok" THEN r2
         ELSE [rc_new(r2, Extended(r1.sym, r2.any)) EXCEPT !.any = AnyRef(Len(r2.heap) + 1)]))
    ELSE Let(read_payload(r, type_byte), LAMBDA r1 :
         IF r1.status # "ok" THEN r1
         ELSE set_object(alloc_object(r1), Len(r1.objects), r1.cell))

read_ref(r, type_byte) ==
    IF type_byte = T_EXTENDED
    THEN Let(read_entry_symbol(r), LAMBDA r1 :
         Let(read_entry(r1), LAMBDA r2 :
         IF r2.status # "ok" THEN r2
         ELSE [rc_new(r2, Extended(r1.sym, r2.any)) EXCEPT !.any = AnyRef(Len(r2.heap) + 1)]))
    ELSE Let(Len(r.objects), LAMBDA o_index :
         Let(read_payload(alloc_object(r), type_byte), LAMBDA r1 :
         IF r1.status # "ok" THEN r1 ELSE set_object(r1, o_index, r1.cell)))

\* RbReader::read, were the header test to accept a stream as soon as one of
\* its two bytes is right (`||` for `&&`)
read_lax_header(r) ==
    Let(read_exact(r, 2), LAMBDA r1 :
    IF r1.status # "ok" THEN r1
    ELSE IF ~(r1.bytes[1] = 4 \/ r1.bytes[2] = 8) THEN fail(r1, "Version", 0)
    ELSE read_entry(r1))

\* RbReader::read
read(r) ==
    Let(read_exact(r, 2), LAMBDA r1 :
    IF r1.status # "ok" THEN r1
    ELSE IF ~(r1.bytes[1] = 4 /\ r1.bytes[2] = 8) THEN fail(r1, "Version", 0)
    ELSE read_entry(r1))

\* from_reader(src)
from_reader(src, hp, oc) == read(RbReader_new(src, hp, oc))

\* tests::reader_parse_loose: rd.allow_bin_strings = true; rd.read()
reader_parse_loose(s, hp, oc) ==
    read([RbReader_new(s, hp, oc) EXCEPT !.allow_bin_strings = TRUE])

(***************************************************************************)
(* RbCompare (rb_compare.rs): deep_cmp / deep_eq                           *)
(*                                                                         *)
(* A comparator is its `seen` map, a function from RefPair to an           *)
(* Option<Ordering> ("None", "Less", "Equal", "Greater").  Every cmp_*     *)
(* returns [seen, ord]: the map afterwards and the Option<Ordering>.       *)
(* The address of a cell is its handle.                                    *)
(***************************************************************************)
RbCompare_new == <<>>

\* RefPair::new
RefPair_new(a, b) == IF b < a THEN <<b, a>> ELSE <<a, b>>

any_id(a) ==
    CASE a.t = "Nil" -> 0 [] a.t = "False" -> 1 [] a.t = "True" -> 2
      [] a.t = "Int" -> 3 [] a.t = "Symbol" -> 4 [] OTHER -> 5

\* RbRef::ordinal
ordinal(k) ==
    CASE k = "Array" -> 0 [] k = "BigInt" -> 1 [] k = "ClassModuleRef" -> 2
      [] k = "ClassRef" -> 3 [] k = "Data" -> 4 [] k = "Extended" -> 5
      [] k = "Float" -> 6 [] k = "Hash" -> 7 [] k = "ModuleRef" -> 8
      [] k = "Object" -> 9 [] k = "Regex" -> 10 [] k = "RegexI" -> 11
      [] k = "Str" -> 12 [] k = "StrI" -> 13 [] k = "Struct" -> 14
      [] k = "UserClass" -> 15 [] k = "UserData" -> 16 [] OTHER -> 17

Res(seen, ord) == [seen |-> seen, ord |-> ord]

\* Option::unwrap_or(Ordering::Equal)
unwrap_or_equal(ord) == IF ord = "None" THEN "Equal" ELSE ord

RECURSIVE cmp_any(_, _, _, _), cmp_ref(_, _, _, _), cmp_array_from(_, _, _, _, _),
          cmp_hash_from(_, _, _, _, _), cmp_fields_from(_, _, _, _, _)

\* cmp_any, were it to return what cmp_ref returned without the fallback to
\* the order of the two addresses
cmp_any_no_fallback(hp, seen, lhs, rhs) ==
    CASE lhs.t = "Int" /\ rhs.t = "Int" -> Res(seen, cmp_int(lhs.i, rhs.i))
      [] lhs.t = "Symbol" /\ rhs.t = "Symbol" -> Res(seen, cmp_bytes(lhs.s, rhs.s))
      [] lhs.t = "Ref" /\ rhs.t = "Ref" ->
            Let(RefPair_new(lhs.h, rhs.h), LAMBDA pair :
            IF pair \in DOMAIN seen THEN Res(seen, seen[pair])
            ELSE Let(cmp_ref(hp, (pair :> "None") @@ seen, hp[lhs.h], hp[rhs.h]), LAMBDA n :
                    Res((pair :> n.ord) @@ [p \in DOMAIN n.seen \ {pair} |-> n.seen[p]],
                        n.ord)))
      [] OTHER -> Res(seen, cmp_int(any_id(lhs), any_id(rhs)))

cmp_any(hp, seen, lhs, rhs) ==
    CASE lhs.t = "Int" /\ rhs.t = "Int" -> Res(seen, cmp_int(lhs.i, rhs.i))
      [] lhs.t = "Symbol" /\ rhs.t = "Symbol" -> Res(seen, cmp_bytes(lhs.s, rhs.s))
      [] lhs.t = "Ref" /\ rhs.t = "Ref" ->
            Let(RefPair_new(lhs.h, rhs.h), LAMBDA pair :
            IF pair \in DOMAIN seen THEN Res(seen, seen[pair])
            ELSE Let(cmp_ref(hp, (pair :> "None") @@ seen, hp[lhs.h], hp[rhs.h]), LAMBDA n :
                 Let(IF n.ord # "None" THEN n.ord ELSE cmp_int(lhs.h, rhs.h), LAMBDA new_ord :
                    Res((pair :> new_ord) @@ [p \in DOMAIN n.seen \ {pair} |-> n.seen[p]],
                        new_ord))))
      [] OTHER -> Res(seen, cmp_int(any_id(lhs), any_id(rhs)))

cmp_symbol_any(hp, seen, l_sym, l_any, r_sym, r_any) ==
    Let(cmp_bytes(l_sym, r_sym), LAMBDA c0 :
    IF c0 = "Equal" THEN cmp_any(hp, seen, l_any, r_any) ELSE Res(seen, c0))

\* the zip loop of cmp_array, from index i
cmp_array_from(hp, seen, l0, r0, i) ==
    IF i > Len(l0) \/ i > Len(r0) THEN Res(seen, "Equal")
    ELSE Let(cmp_any(hp, seen, l0[i], r0[i]), LAMBDA c :
         Let(unwrap_or_equal(c.ord), LAMBDA c0 :
         IF c0 # "Equal" THEN Res(c.seen, c0)
         ELSE cmp_array_from(hp, c.seen, l0, r0, i + 1)))

cmp_array(hp, seen, l0, r0) ==
    Let(cmp_int(Len(l0), Len(r0)), LAMBDA c0 :
    IF c0 # "Equal" THEN Res(seen, c0) ELSE cmp_array_from(hp, seen, l0, r0, 1))

\* the zip loop of cmp_hash, from index i
cmp_hash_from(hp, seen, l0, r0, i) ==
    IF i > Len(l0) \/ i > Len(r0) THEN Res(seen, "Equal")
    ELSE Let(cmp_any(hp, seen, l0[i][1], r0[i][1]), LAMBDA k :
         Let(unwrap_or_equal(k.ord), LAMBDA c0 :
         IF c0 # "Equal" THEN Res(k.seen, c0)
         ELSE Let(cmp_any(hp, k.seen, l0[i][2], r0[i][2]), LAMBDA v :
              Let(unwrap_or_equal(v.ord), LAMBDA c1 :
              IF c1 # "Equal" THEN Res(v.seen, c1)
              ELSE cmp_hash_from(hp, v.seen, l0, r0, i + 1)))))

cmp_hash(hp, seen, l0, r0) == cmp_hash_from(hp, seen, l0.pairs, r0.pairs, 1)

\* the loop of cmp_fields, from index i; the two maps have the same length
cmp_fields_from(hp, seen, l_meta, r_meta, i) ==
    IF i > Len(l_meta) THEN Res(seen, "Equal")
    ELSE Let(cmp_bytes(l_meta[i][1].s, r_meta[i][1].s), LAMBDA c0 :
         IF c0 # "Equal" THEN Res(seen, c0)
         ELSE Let(cmp_any(hp, seen, l_meta[i][2], r_meta[i][2]), LAMBDA v :
              Let(unwrap_or_equal(v.ord), LAMBDA c1 :
              IF c1 # "Equal" THEN Res(v.seen, c1)
              ELSE cmp_fields_from(hp, v.seen, l_meta, r_meta, i + 1))))

cmp_fields(hp, seen, l_meta, r_meta) ==
    Let(cmp_int(Len(l_meta), Len(r_meta)), LAMBDA c0 :
    IF c0 # "Equal" THEN Res(seen, c0) ELSE cmp_fields_from(hp, seen, l_meta, r_meta, 1))

cmp_object(hp, seen, l0, r0) ==
    Let(cmp_bytes(l0.name, r0.name), LAMBDA c0 :
    IF c0 # "Equal" THEN Res(seen, c0) ELSE cmp_fields(hp, seen, l0.pairs, r0.pairs))

\* cmp_regex; has_meta says that both sides carry metadata
cmp_regex(hp, seen, l, r, has_meta) ==
    Let(cmp_bytes(l.s, r.s), LAMBDA c0 :
    Let(cmp_u32(l.flags, r.flags), LAMBDA c1 :
    IF c0 = "Equal"
    THEN (IF c1 = "Equal" /\ has_meta THEN cmp_fields(hp, seen, l.pairs, r.pairs)
          ELSE Res(seen, c1))
    ELSE Res(seen, c0)))

cmp_ref(hp, seen, lhs, rhs) ==
    IF lhs.k # rhs.k THEN Res(seen, cmp_int(ordinal(lhs.k), ordinal(rhs.k)))
    ELSE CASE lhs.k = "Array" -> cmp_array(hp, seen, lhs.items, rhs.items)
           [] lhs.k = "BigInt" -> Res(seen, bigint_cmp(lhs.num, rhs.num))
           [] lhs.k \in {"ClassModuleRef", "ClassRef", "ModuleRef", "Str"} ->
                Res(seen, cmp_bytes(lhs.s, rhs.s))
           [] lhs.k \in {"Data", "Extended", "UserClass", "UserMarshal"} ->
                cmp_symbol_any(hp, seen, lhs.name, lhs.items[1], rhs.name, rhs.items[1])
           [] lhs.k = "Float" -> Res(seen, float_partial_cmp(lhs.num, rhs.num))
           [] lhs.k = "Hash" -> cmp_hash(hp, seen, lhs, rhs)
           [] lhs.k \in {"Object", "Struct"} -> cmp_object(hp, seen, lhs, rhs)
           [] lhs.k = "Regex" -> cmp_regex(hp, seen, lhs, rhs, FALSE)
           [] lhs.k = "RegexI" -> cmp_regex(hp, seen, lhs, rhs, TRUE)
           [] lhs.k = "StrI" ->
                Let(cmp_bytes(lhs.s, rhs.s), LAMBDA c0 :
                IF c0 = "Equal" THEN cmp_fields(hp, seen, lhs.pairs, rhs.pairs)
                ELSE Res(seen, c0))
           [] OTHER -> \* UserData
                Let(cmp_bytes(lhs.name, rhs.name), LAMBDA c0 :
                IF c0 = "Equal" THEN Res(seen, cmp_bytes(lhs.s, rhs.s)) ELSE Res(seen, c0))

\* RbAny::deep_cmp: RbCompare::new().cmp(self, other); "None" is the failed
\* unwrap
deep_cmp(hp, a, b) == cmp_any(hp, RbCompare_new, a, b).ord

\* RbAny::deep_eq
deep_eq(hp, a, b) == deep_cmp(hp, a, b) = "Equal"

(***************************************************************************)
(* Inputs                                                                  *)
(***************************************************************************)
\* byte streams: the ones of the tests in lib.rs, and an Array that holds
\* itself
StreamArrayStringHash ==
    <<4, 8, 91, 7, 73, 34, 9, 116, 101, 115, 116, 6, 58, 6, 69, 84, 123, 6, 58, 6, 97,
      73, 34, 6, 98, 6, 59, 0, 84>>
StreamClassAndInt ==
    <<4, 8, 91, 7, 111, 58, 8, 70, 111, 111, 7, 58, 10, 64, 110, 97, 109, 101, 73, 34,
      9, 74, 97, 99, 107, 6, 58, 6, 69, 84, 58, 9, 64, 97, 103, 101, 105, 30, 111, 59,
      0, 7, 59, 6, 73, 34, 9, 74, 97, 110, 101, 6, 59, 7, 84, 59, 8, 105, 29>>
StreamModules ==
    <<4, 8, 123, 7, 58, 7, 97, 97, 111, 58, 14, 66, 97, 114, 58, 58, 66, 97, 122, 65,
      0, 58, 7, 98, 98, 111, 58, 14, 66, 97, 114, 58, 58, 66, 97, 122, 66, 0>>
StreamObjectRefCount1 ==
    <<4, 8, 91, 10, 111, 58, 8, 70, 111, 111, 7, 58, 10, 64, 110, 97, 109, 101, 73, 34,
      9, 74, 97, 99, 107, 6, 58, 6, 69, 84, 58, 9, 64, 97, 103, 101, 105, 30, 64, 6,
      123, 6, 58, 8, 107, 101, 121, 64, 6, 111, 59, 0, 7, 59, 6, 73, 34, 9, 74, 97,
      110, 101, 6, 59, 7, 84, 59, 8, 105, 29, 64, 9>>
StreamObjectRefCount2 ==
    <<4, 8, 91, 7, 91, 6, 73, 34, 9, 84, 101, 115, 116, 6, 58, 6, 69, 84, 64, 6>>
StreamExtended == <<4, 8, 101, 58, 8, 66, 97, 114, 91, 0>>
StreamFloats ==
    <<4, 8, 91, 8, 102, 13, 48, 46, 49, 50, 51, 0, 78, 79, 102, 10, 49, 46, 50, 51, 52,
      102, 16, 45, 49, 49, 57, 54, 48, 55, 51, 46, 55, 53>>
StreamBinString == <<4, 8, 34, 8, 195, 40, 52>>
StreamSelfRef == <<4, 8, 91, 6, 64, 0>>
\* a Hash that is its own value, an Object that is its own field, and an
\* Array shared by two places inside a Data
StreamSelfHash == <<4, 8, 123, 6, 58, 6, 107, 64, 0>>
StreamSelfObject == <<4, 8, 111, 58, 6, 79, 6, 58, 6, 102, 64, 0>>
StreamSharedInData == <<4, 8, 91, 7, 100, 58, 6, 68, 91, 0, 64, 7>>

InputStreams ==
    {StreamArrayStringHash, StreamClassAndInt, StreamModules, StreamObjectRefCount1,
     StreamObjectRefCount2, StreamExtended, StreamFloats, StreamBinString,
     StreamSelfRef, StreamSelfHash, StreamSelfObject, StreamSharedInData}

\* the Marshal varint of an index (w_long of marshal.c), for 0 <= n < 65536
IndexBytes(n) ==
    IF n = 0 THEN <<0>>
    ELSE IF n < 123 THEN <<n + 5>>
    ELSE IF n < 256 THEN <<1, n>>
    ELSE <<2, n % 256, n \div 256>>

\* the entry of a scalar
EntryBytes(v) ==
    CASE v.t = "True" -> <<T_TRUE>>
      [] v.t = "False" -> <<T_FALSE>>
      [] v.t = "Nil" -> <<T_NIL>>
      [] v.t = "Int" -> <<T_INT>> \o IndexBytes(v.i)

\* field tails with keys @b and @a, some of them given twice
FieldTails ==
    {<<<<<<64, 98>>, AnyInt(1)>>, <<<<64, 97>>, AnyInt(2)>>>>,
     <<<<<<64, 98>>, AnyInt(1)>>, <<<<64, 97>>, AnyInt(2)>>, <<<<64, 98>>, AnyInt(3)>>>>,
     <<<<<<64, 98>>, AnyInt(1)>>, <<<<64, 98>>, AnyNil>>, <<<<64, 97>>, AnyTrue>>>>,
     <<<<<<64, 97>>, AnyInt(1)>>, <<<<64, 98>>, AnyInt(2)>>, <<<<64, 97>>, AnyInt(3)>>,
       <<<<64, 98>>, AnyInt(4)>>>>}

\* the pairs of a tail from the i-th on, as Ruby writes them: a key met
\* before is `;` and its index, `base` symbols having come before the tail
RECURSIVE FieldBytes(_, _, _)
FieldBytes(tail, i, base) ==
    IF i > Len(tail) THEN <<>>
    ELSE (IF \E j \in 1..(i - 1) : tail[j][1] = tail[i][1]
          THEN <<T_SYMBOL_REF>>
                  \o IndexBytes(base + Cardinality({tail[m][1] : m \in
                         1..((CHOOSE j \in 1..(i - 1) :
                                 /\ tail[j][1] = tail[i][1]
                                 /\ \A l \in 1..(j - 1) : tail[l][1] # tail[i][1]) - 1)}))
          ELSE <<T_SYMBOL>> \o IndexBytes(Len(tail[i][1])) \o tail[i][1])
         \o EntryBytes(tail[i][2]) \o FieldBytes(tail, i + 1, base)

\* Object or Struct Foo (tag `o` or `S`) with the fields of tail
ObjectFieldStream(tag, tail) ==
    <<4, 8, tag, T_SYMBOL, 8, 70, 111, 111>> \o IndexBytes(Len(tail))
        \o FieldBytes(tail, 1, 1)

\* `Io`: Object Foo with the first pair of tail as its own field and the
\* rest as the tail of the Instance
InstanceObjectStream(tail) ==
    <<4, 8, T_INSTANCE, T_OBJECT, T_SYMBOL, 8, 70, 111, 111, 6>>
        \o FieldBytes(SubSeq(tail, 1, 1), 1, 1)
        \o IndexBytes(Len(tail) - 1)
        \o SubSeq(FieldBytes(tail, 1, 1), Len(FieldBytes(SubSeq(tail, 1, 1), 1, 1)) + 1,
                  Len(FieldBytes(tail, 1, 1)))

\* `I"` and `I/` (flags 0) with the body "a" and the fields of tail
StrIFieldStream(tail) ==
    <<4, 8, T_INSTANCE, T_STRING, 6, 97>> \o IndexBytes(Len(tail)) \o FieldBytes(tail, 1, 0)
RegexIFieldStream(tail) ==
    <<4, 8, T_INSTANCE, T_REGEX, 6, 97, 0>> \o IndexBytes(Len(tail))
        \o FieldBytes(tail, 1, 0)

FieldStreams ==
    UNION {{ObjectFieldStream(T_OBJECT, t), ObjectFieldStream(T_STRUCT, t),
            InstanceObjectStream(t), StrIFieldStream(t), RegexIFieldStream(t)} :
              t \in FieldTails}

\* the cells a caller has built before encoding: every variant of RbRef,
\* two Str of equal text behind different handles (1 and 2), a BigInt of
\* odd and one of even magnitude length, Regex with and without flags,
\* StrI / RegexI with fields, Hash with and without default, Extended
Pool ==
    <<Str(<<97>>),
      Str(<<97>>),
      Str(<<195, 169>>),
      BigInt(BigVal(FALSE, <<1>>)),
      BigInt(BigVal(TRUE, <<0, 1>>)),
      BigInt(BigVal(FALSE, <<>>)),
      Float(FloatVal(FALSE, 15, 1)),
      Float(FloatInf(TRUE)),
      Regex(<<97>>, 0),
      Regex(<<97>>, 1),
      StrI(<<195, 40>>, <<<<AnySymbol(<<107>>), AnyInt(1)>>>>),
      RegexI(<<195, 40>>, 0, <<<<AnySymbol(sym_e), AnyFalse>>>>),
      Array(<<>>),
      Array(<<AnyRef(1)>>),
      Hash(<<<<AnySymbol(<<97>>), AnyRef(1)>>>>, <<>>),
      Hash(<<<<AnySymbol(<<97>>), AnyRef(1)>>>>, <<AnyInt(0)>>),
      Object(<<70, 111, 111>>, <<<<AnySymbol(<<64, 110>>), AnyRef(1)>>,
                                 <<AnySymbol(<<64, 97>>), AnyInt(25)>>>>),
      Struct(<<70, 111, 111>>, <<>>),
      ClassRef(<<67>>),
      ModuleRef(<<77>>),
      ClassModuleRef(<<67>>),
      Data(<<68>>, AnyInt(1)),
      UserClass(<<85>>, AnyRef(13)),
      UserData(<<85>>, <<1, 2>>),
      UserMarshal(<<85>>, AnyRef(1)),
      Extended(<<66, 97, 114>>, AnyRef(13))>>

\* Int roots, inside and outside the one-byte range
IntRoots == {0, 1, -1, 122, -123, 123, -124, 255, 256, -256, 65536, I32_MAX, I32_MIN}

ScalarRoots ==
    {AnyInt(i) : i \in IntRoots} \cup {AnyNil, AnyTrue, AnyFalse, AnySymbol(<<97>>)}

\* what a generated root Array may hold
Elems ==
    {AnyInt(1), AnySymbol(<<97>>), AnyRef(1), AnyRef(2), AnyRef(4), AnyRef(10),
     AnyRef(13), AnyRef(26)}

SeqsUpTo(S, n) == UNION {[1..k -> S] : k \in 0..n}

\* the varint inputs: the edges of every branch of write_int and a dense
\* range around the one-byte values
IntSamples ==
    ((-MaxSmall)..MaxSmall)
    \cup {255, 256, 257, -255, -256, -257, 65535, 65536, 65537, -65536, -65537,
          16777215, 16777216, 16777217, -16777216, -16777217,
          I32_MAX, I32_MAX - 1, I32_MIN, I32_MIN + 1}

(***************************************************************************)
(* The caller: builds a value or obtains bytes, then calls to_writer and   *)
(* from_reader in turn, each on what the other returned.                   *)
(***************************************************************************)
TypeInitCommon ==
    /\ wr = RbWriter_new
    /\ rd = RbReader_new(<<>>, <<>>, overflow_checks)
    /\ calls = 0
    /\ src_val = AnyNil
    /\ args = <<>>
    /\ ret = <<>>

Init ==
    /\ overflow_checks \in BOOLEAN
    /\ \/ /\ pc = "value"
          /\ buf = <<>>
          /\ \/ heap = Pool /\ val \in ScalarRoots \cup {AnyRef(h) : h \in 1..Len(Pool)}
             \/ \E items \in SeqsUpTo(Elems, MaxLen) :
                    /\ heap = Append(Pool, Array(items))
                    /\ val = AnyRef(Len(Pool) + 1)
       \/ /\ pc = "bytes"
          /\ buf \in InputStreams \cup FieldStreams
          /\ heap = <<>>
          /\ val = AnyNil
    /\ TypeInitCommon

\* to_writer(&mut buf, &val)
ToWriter ==
    /\ pc \in {"value", "read"}
    /\ calls < MaxCalls
    /\ wr' = to_writer(heap, val)
    /\ src_val' = val
    /\ calls' = calls + 1
    /\ IF wr'.status = "ok"
       THEN buf' = wr'.dst /\ pc' = "written"
       ELSE buf' = buf /\ pc' = "aborted"
    /\ UNCHANGED <<heap, val, rd, overflow_checks, args, ret>>

\* from_reader(buf)
FromReader ==
    /\ pc \in {"bytes", "written"}
    /\ calls < MaxCalls
    /\ rd' = from_reader(buf, heap, overflow_checks)
    /\ calls' = calls + 1
    /\ IF rd'.status = "ok"
       THEN heap' = rd'.heap /\ val' = rd'.any /\ pc' = "read"
       ELSE heap' = heap /\ val' = val /\ pc' = "failed"
    /\ UNCHANGED <<buf, wr, src_val, overflow_checks, args, ret>>

Next == ToWriter \/ FromReader

Spec == Init /\ [][Next]_vars

(***************************************************************************)
(* The varint codec on its own: write_int, then read_int on what it wrote  *)
(***************************************************************************)
InitVarint ==
    /\ overflow_checks \in BOOLEAN
    /\ pc = "int"
    /\ val \in {AnyInt(i) : i \in IntSamples}
    /\ heap = <<>>
    /\ buf = <<>>
    /\ TypeInitCommon

WriteInt ==
    /\ pc = "int"
    /\ wr' = write_int(RbWriter_new, val.i)
    /\ buf' = wr'.dst
    /\ pc' = "int_written"
    /\ calls' = calls + 1
    /\ UNCHANGED <<heap, val, rd, src_val, overflow_checks, args, ret>>

ReadInt ==
    /\ pc = "int_written"
    /\ rd' = read_int(RbReader_new(buf, <<>>, overflow_checks))
    /\ pc' = "int_read"
    /\ calls' = calls + 1
    /\ UNCHANGED <<heap, val, buf, wr, src_val, overflow_checks, args, ret>>

NextVarint == WriteInt \/ ReadInt

SpecVarint == InitVarint /\ [][NextVarint]_vars

(***************************************************************************)
(* The reader on its own: from_reader, or the loose reader of the tests,   *)
(* on bytes that need not be well formed                                   *)
(***************************************************************************)
Prefixes(s) == {SubSeq(s, 1, n) : n \in 0..Len(s)}

Byte == 0..255

\* a two-byte header around 4.8, then a Nil entry
HeaderStreams == {<<a, b, T_NIL>> : a \in {3, 4, 5}, b \in {7, 8, 9}} \cup {<<8, 4, T_NIL>>}

\* every byte as the tag of the root entry and as the tag of the one element
\* of an Array
TagStreams ==
    {<<4, 8, t, 0, 0, 0>> : t \in Byte} \cup {<<4, 8, T_ARRAY, 6, t, 0, 0, 0>> : t \in Byte}

\* every byte after the `I` of an Instance, at the root and inside an Array
InstanceStreams ==
    {<<4, 8, T_INSTANCE, t, 0, 0, 0>> : t \in Byte}
    \cup {<<4, 8, T_ARRAY, 6, T_INSTANCE, t, 0, 0, 0>> : t \in Byte}

\* the indices tried; MaxIndex is more than any table holds
MaxIndex == 4
RefIndexes == (0..MaxIndex) \cup {122, 123, 255, 256}

\* `k` symbols :a, :b, ... as the first elements of an Array
RECURSIVE SymbolItems(_)
SymbolItems(k) == IF k = 0 THEN <<>> ELSE SymbolItems(k - 1) \o <<T_SYMBOL, 6, 96 + k>>

\* `k` empty Arrays as the first elements of an Array
RECURSIVE ArrayItems(_)
ArrayItems(k) == IF k = 0 THEN <<>> ELSE ArrayItems(k - 1) \o <<T_ARRAY, 0>>

\* an Array of k symbols and then `;n`: the symbol table holds k entries
SymbolRefStream(k, n) ==
    <<4, 8, T_ARRAY, k + 1 + 5>> \o SymbolItems(k) \o <<T_SYMBOL_REF>> \o IndexBytes(n)

\* an Array of k Arrays and then `@n`: the object table holds k + 1 entries
ObjectRefStream(k, n) ==
    <<4, 8, T_ARRAY, k + 1 + 5>> \o ArrayItems(k) \o <<T_OBJECT_REF>> \o IndexBytes(n)

\* `;n` and `@n` as the root entry, both tables empty; `;` and `@` with a
\* negative varint
RefStreams ==
    {SymbolRefStream(k, n) : k \in 0..2, n \in RefIndexes}
    \cup {ObjectRefStream(k, n) : k \in 0..2, n \in RefIndexes}
    \cup {<<4, 8, T_SYMBOL_REF>> \o IndexBytes(n) : n \in RefIndexes}
    \cup {<<4, 8, T_OBJECT_REF>> \o IndexBytes(n) : n \in RefIndexes}
    \cup {<<4, 8, T_SYMBOL_REF, 250>>, <<4, 8, T_OBJECT_REF, 250>>,
          <<4, 8, T_ARRAY, 7, T_SYMBOL, 6, 97, T_SYMBOL_REF, 250>>,
          <<4, 8, T_ARRAY, 6, T_OBJECT_REF, 250>>}

\* bare String entries: empty, ASCII, two-byte UTF-8, and bytes that are
\* not UTF-8 (the one of tests::invalid_utf8_string_allowed among them)
StringBodies == {<<>>, <<97>>, <<195, 169>>, <<195, 40, 52>>, <<255>>, <<97, 128>>}

StringStreams ==
    {<<4, 8, T_STRING>> \o IndexBytes(Len(b)) \o b : b \in StringBodies}
    \cup {<<4, 8, T_ARRAY, 7, T_STRING, 6, 97, T_STRING, 7, 195, 40>>}

\* what to_writer produces for the values of Init that are not Arrays built
\* on the Pool
WrittenStreams ==
    {to_writer(Pool, v).dst :
        v \in {x \in ScalarRoots \cup {AnyRef(h) : h \in 1..Len(Pool)} :
                  to_writer(Pool, x).status = "ok"}}

\* the bytes of a field tail, every key written in full (`:`)
RECURSIVE TailBytes(_)
TailBytes(tail) ==
    IF tail = <<>> THEN <<>>
    ELSE <<T_SYMBOL>> \o IndexBytes(Len(tail[1][1])) \o tail[1][1]
             \o EntryBytes(tail[1][2]) \o TailBytes(Tail(tail))

InstanceTails ==
    {<<>>,
     <<<<sym_e, AnyTrue>>>>,
     <<<<sym_e, AnyFalse>>>>,
     <<<<sym_e, AnyInt(1)>>>>,
     <<<<<<101>>, AnyTrue>>>>,
     <<<<<<120>>, AnyInt(1)>>, <<<<121>>, AnyTrue>>>>,
     <<<<sym_e, AnyTrue>>, <<<<120>>, AnyInt(1)>>>>,
     <<<<<<120>>, AnyInt(1)>>, <<sym_e, AnyTrue>>>>,
     <<<<sym_e, AnyFalse>>, <<sym_e, AnyTrue>>>>,
     <<<<sym_e, AnyTrue>>, <<sym_e, AnyFalse>>>>,
     <<<<<<120>>, AnyInt(1)>>, <<<<121>>, AnyNil>>, <<<<120>>, AnyInt(2)>>>>}

InstanceStringStream(body, tail) ==
    <<4, 8, T_INSTANCE, T_STRING>> \o IndexBytes(Len(body)) \o body
        \o IndexBytes(Len(tail)) \o TailBytes(tail)

InstanceStringStreams ==
    {InstanceStringStream(b, t) : b \in StringBodies, t \in InstanceTails}

\* a negative varint (FA is -1, FF 05 a two-byte negative) where a length
\* or a count is read, at every place that reads one, and the varint
\* FC 00 00 00 80 as an Int and as a length
NegativeLengthStreams ==
    UNION {{<<4, 8, T_STRING>> \o n,
            <<4, 8, T_SYMBOL>> \o n,
            <<4, 8, T_BIGNUM, 43>> \o n,
            <<4, 8, T_FLOAT>> \o n,
            <<4, 8, T_REGEX>> \o n,
            <<4, 8, T_CLASS>> \o n,
            <<4, 8, T_INSTANCE, T_STRING>> \o n,
            <<4, 8, T_USER_DEFINED, T_SYMBOL, 6, 65>> \o n,
            <<4, 8, T_ARRAY>> \o n,
            <<4, 8, T_HASH>> \o n,
            <<4, 8, T_OBJECT, T_SYMBOL, 6, 65>> \o n,
            <<4, 8, T_INSTANCE, T_STRING, 6, 97>> \o n,
            <<4, 8, T_INT>> \o n} :
              n \in {<<250>>, <<128>>, <<255, 5>>, <<252, 0, 0, 0, 128>>}}

ReaderStreams ==
    UNION {Prefixes(s) : s \in InputStreams \cup WrittenStreams}
    \cup FieldStreams
    \cup HeaderStreams \cup TagStreams \cup InstanceStreams \cup RefStreams
    \cup StringStreams \cup InstanceStringStreams \cup NegativeLengthStreams

InitReader ==
    /\ overflow_checks \in BOOLEAN
    /\ pc = "bytes"
    /\ buf \in ReaderStreams
    /\ heap = <<>>
    /\ val = AnyNil
    /\ TypeInitCommon

\* reader_parse_loose(buf)
ReaderParseLoose ==
    /\ pc = "bytes"
    /\ calls < MaxCalls
    /\ rd' = reader_parse_loose(buf, heap, overflow_checks)
    /\ calls' = calls + 1
    /\ IF rd'.status = "ok"
       THEN heap' = rd'.heap /\ val' = rd'.any /\ pc' = "read"
       ELSE heap' = heap /\ val' = val /\ pc' = "failed"
    /\ UNCHANGED <<buf, wr, src_val, overflow_checks, args, ret>>

NextReader == FromReader \/ ReaderParseLoose

SpecReader == InitReader /\ [][NextReader]_vars

(***************************************************************************)
(* deep_cmp and deep_eq on their own: the caller holds three values a, b,  *)
(* c (args) over one heap and compares a with b, b with a, a with a,       *)
(* b with c and a with c, then asks deep_eq of a and b.                    *)
(***************************************************************************)
\* the Pool, then two NaN, and cells that reach themselves: through an
\* Array, through the payload of a Data, a UserClass and a UserMarshal,
\* through a Hash value, through an Object field, through two Arrays that
\* hold each other, through an Extended in an Array (35 and 43); then
\* Hashes of zero and one entry
CmpHeap ==
    Pool \o
    <<Float(FloatNan),                                                \* 27
      Float(FloatNan),                                                \* 28
      Array(<<AnyRef(29)>>),                                          \* 29
      Array(<<AnyRef(30)>>),                                          \* 30
      Data(<<68>>, AnyRef(31)),                                       \* 31
      Data(<<68>>, AnyRef(32)),                                       \* 32
      UserClass(<<85>>, AnyRef(33)),                                  \* 33
      UserMarshal(<<85>>, AnyRef(34)),                                \* 34
      Extended(<<66, 97, 114>>, AnyRef(43)),                          \* 35
      Hash(<<<<AnySymbol(<<107>>), AnyRef(36)>>>>, <<>>),             \* 36
      Object(<<79>>, <<<<AnySymbol(<<102>>), AnyRef(37)>>>>),         \* 37
      Array(<<AnyRef(39)>>),                                          \* 38
      Array(<<AnyRef(38)>>),                                          \* 39
      Hash(<<>>, <<>>),                                               \* 40
      Hash(<<<<AnySymbol(<<97>>), AnyInt(1)>>>>, <<>>),               \* 41
      Hash(<<<<AnySymbol(<<97>>), AnyInt(2)>>>>, <<>>),               \* 42
      Array(<<AnyRef(35)>>)>>                                         \* 43

CmpScalars ==
    {AnyNil, AnyFalse, AnyTrue, AnyInt(0), AnyInt(1), AnySymbol(<<97>>), AnySymbol(<<98>>)}

CmpRoots == CmpScalars \cup {AnyRef(h) : h \in 1..Len(CmpHeap)}

\* the third operand
ThirdRoots == {AnyInt(0), AnySymbol(<<97>>), AnyRef(1), AnyRef(29), AnyRef(40), AnyRef(42)}

\* the operands of the calls, in order, as indices into args
CmpCalls == <<<<1, 2>>, <<2, 1>>, <<1, 1>>, <<2, 3>>, <<1, 3>>>>

InitCompare ==
    /\ overflow_checks = TRUE
    /\ pc = "compare"
    /\ heap = CmpHeap
    /\ args \in {<<a, b, c>> : a \in CmpRoots, b \in CmpRoots, c \in ThirdRoots}
    /\ ret = <<>>
    /\ val = AnyNil
    /\ buf = <<>>
    /\ wr = RbWriter_new
    /\ rd = RbReader_new(<<>>, <<>>, overflow_checks)
    /\ calls = 0
    /\ src_val = AnyNil

\* args[i].deep_cmp(&args[j]) for the next pair of CmpCalls
DeepCmp ==
    /\ pc = "compare"
    /\ Len(ret) < Len(CmpCalls)
    /\ ret' = Append(ret, deep_cmp(heap, args[CmpCalls[Len(ret) + 1][1]],
                                   args[CmpCalls[Len(ret) + 1][2]]))
    /\ calls' = calls + 1
    /\ UNCHANGED <<heap, val, buf, wr, rd, pc, src_val, overflow_checks, args>>

\* args[1].deep_eq(&args[2])
DeepEq ==
    /\ pc = "compare"
    /\ Len(ret) = Len(CmpCalls)
    /\ ret' = Append(ret, deep_eq(heap, args[1], args[2]))
    /\ calls' = calls + 1
    /\ pc' = "compared"
    /\ UNCHANGED <<heap, val, buf, wr, rd, src_val, overflow_checks, args>>

NextCompare == DeepCmp \/ DeepEq

SpecCompare == InitCompare /\ [][NextCompare]_vars

(***************************************************************************)
(* Child lookup (rb_ref.rs get_child, rb_any.rs find_child).  An           *)
(* Option<&RbAny> is [st, v] with st "Some" or "None"; "Overflow" is the    *)
(* call that never returns because a payload wraps itself.                 *)
(***************************************************************************)
Some(v) == [st |-> "Some", v |-> v]
None == [st |-> "None", v |-> AnyNil]

\* IndexMap<RbAny, RbAny>::get: the entry with the key's hash and an equal
\* key
map_get(hp, pairs, key) ==
    Let({i \in 1..Len(pairs) :
            any_hash(pairs[i][1]) = any_hash(key) /\ any_eq(hp, pairs[i][1], key)}, LAMBDA I :
    IF I = {} THEN None ELSE Some(pairs[CHOOSE i \in I : \A j \in I : i <= j][2]))

\* RbObject::get: IndexMap<RbSymbol, RbAny>::get
object_get(pairs, sym) ==
    Let({i \in 1..Len(pairs) : pairs[i][1].s = sym}, LAMBDA I :
    IF I = {} THEN None ELSE Some(pairs[CHOOSE i \in I : \A j \in I : i <= j][2]))

\* RbRef::get_child on the cell behind handle h; stk holds the handles whose
\* payload is being looked into
RECURSIVE get_child(_, _, _, _)
get_child(hp, h, key, stk) ==
    Let(hp[h], LAMBDA c :
    CASE c.k \in {"Float", "BigInt", "Str", "StrI", "Regex", "RegexI", "ClassRef",
                  "ModuleRef", "ClassModuleRef", "UserData"} -> None
      [] c.k \in {"Data", "UserClass", "UserMarshal", "Extended"} ->
            IF c.items[1].t # "Ref" THEN None
            ELSE IF c.items[1].h \in stk \cup {h} THEN [st |-> "Overflow", v |-> AnyNil]
            ELSE get_child(hp, c.items[1].h, key, stk \cup {h})
      [] c.k = "Array" ->
            IF key.t = "Int" /\ key.i >= 0 /\ key.i < Len(c.items)
            THEN Some(c.items[key.i + 1]) ELSE None
      [] c.k = "Hash" -> map_get(hp, c.pairs, key)
      [] OTHER -> \* Struct, Object
            IF key.t = "Symbol" THEN object_get(c.pairs, key.s) ELSE None)

\* RbAny::find_child, from the i-th key of the path on
RECURSIVE find_child_from(_, _, _, _)
find_child_from(hp, current, path, i) ==
    IF i > Len(path) THEN Some(current)
    ELSE IF current.t # "Ref" THEN None
    ELSE Let(get_child(hp, current.h, path[i], {}), LAMBDA r :
         IF r.st # "Some" THEN r ELSE find_child_from(hp, r.v, path, i + 1))

find_child(hp, root, path) == find_child_from(hp, root, path, 1)

\* the Pool, then a Hash with a Str key and an Int key, a Data around that
\* Hash, an Array of an Object, that Hash and an Int, an Extended around
\* that Array, a UserClass around a Hash, a UserMarshal around an Object, a
\* Data that is its own payload, a Struct with a field
ChildHeap ==
    Pool \o
    <<Hash(<<<<AnyRef(1), AnyInt(7)>>, <<AnyInt(3), AnyRef(14)>>>>, <<>>),   \* 27
      Data(<<68>>, AnyRef(27)),                                               \* 28
      Array(<<AnyRef(17), AnyRef(27), AnyInt(5)>>),                           \* 29
      Extended(<<66, 97, 114>>, AnyRef(29)),                                  \* 30
      UserClass(<<85>>, AnyRef(15)),                                          \* 31
      UserMarshal(<<85>>, AnyRef(17)),                                        \* 32
      Data(<<68>>, AnyRef(33)),                                               \* 33
      Struct(<<83>>, <<<<AnySymbol(<<97>>), AnyRef(29)>>>>)>>                 \* 34

ChildRoots == {AnyNil, AnyInt(1)} \cup {AnyRef(h) : h \in 1..Len(ChildHeap)}

\* keys: Int below, inside and above the Arrays, Symbols that name a Hash
\* key or a field and one that names nothing, the Str that is a Hash key
\* (handle 1), an equal Str behind another handle (2), and Nil
ChildKeys ==
    {AnyInt(-1), AnyInt(0), AnyInt(1), AnyInt(2), AnyInt(3), AnySymbol(<<97>>),
     AnySymbol(<<64, 110>>), AnySymbol(<<122>>), AnyRef(1), AnyRef(2), AnyNil}

\* longest path tried
MaxPath == 2

InitChild ==
    /\ overflow_checks = TRUE
    /\ pc = "lookup"
    /\ heap = ChildHeap
    /\ val \in ChildRoots
    /\ args \in SeqsUpTo(ChildKeys, MaxPath)
    /\ ret = <<>>
    /\ buf = <<>>
    /\ wr = RbWriter_new
    /\ rd = RbReader_new(<<>>, <<>>, overflow_checks)
    /\ calls = 0
    /\ src_val = AnyNil

\* val.as_rbref().unwrap().get_child(&args[0])
GetChild ==
    /\ pc = "lookup"
    /\ val.t = "Ref" /\ Len(args) = 1
    /\ ret' = <<get_child(heap, val.h, args[1], {})>>
    /\ pc' = "got"
    /\ calls' = calls + 1
    /\ UNCHANGED <<heap, val, buf, wr, rd, src_val, overflow_checks, args>>

\* RbAny::find_child(&val, args)
FindChild ==
    /\ pc = "lookup"
    /\ ret' = <<find_child(heap, val, args)>>
    /\ pc' = "found"
    /\ calls' = calls + 1
    /\ UNCHANGED <<heap, val, buf, wr, rd, src_val, overflow_checks, args>>

NextChild == GetChild \/ FindChild

SpecChild == InitChild /\ [][NextChild]_vars

(***************************************************************************)
(* read_int on its own, on bytes of any origin: every first byte, followed *)
(* by none to four payload bytes                                           *)
(***************************************************************************)
VarintTails ==
    {<<>>, <<132>>, <<0>>, <<0, 1>>, <<255, 254>>, <<0, 0, 1>>, <<1, 2, 3>>,
     <<0, 0, 0, 128>>, <<255, 255, 255, 127>>, <<1, 2, 3, 4>>,
     <<255, 255, 255, 255>>}

VarintInputs == {<<b>> \o t : b \in Byte, t \in VarintTails}

InitReadInt ==
    /\ overflow_checks \in BOOLEAN
    /\ pc = "int_bytes"
    /\ buf \in VarintInputs
    /\ val = AnyNil
    /\ heap = <<>>
    /\ TypeInitCommon

ReadIntBytes ==
    /\ pc = "int_bytes"
    /\ rd' = read_int(RbReader_new(buf, <<>>, overflow_checks))
    /\ pc' = "int_decoded"
    /\ calls' = calls + 1
    /\ UNCHANGED <<heap, val, buf, wr, src_val, overflow_checks, args, ret>>

NextReadInt == ReadIntBytes

SpecReadInt == InitReadInt /\ [][NextReadInt]_vars

(***************************************************************************)
(* Properties                                                              *)
(***************************************************************************)
\* the value has no cycle and no Float(NaN)
RECURSIVE plain(_, _, _)
plain(hp, a, stk) ==
    IF a.t # "Ref" THEN TRUE
    ELSE IF a.h \in stk THEN FALSE
    ELSE LET c == hp[a.h]
             below == stk \cup {a.h} IN
         /\ ~(c.k = "Float" /\ c.num.nan)
         /\ \A i \in 1..Len(c.items) : plain(hp, c.items[i], below)
         /\ \A i \in 1..Len(c.pairs) :
                plain(hp, c.pairs[i][1], below) /\ plain(hp, c.pairs[i][2], below)
         /\ \A i \in 1..Len(c.def) : plain(hp, c.def[i], below)

\* from_reader has just been applied to the bytes to_writer produced for
\* src_val
RoundTripDone ==
    /\ pc \in {"read", "failed"}
    /\ wr.status = "ok"
    /\ wr.dst # <<>>
    /\ rd.src = wr.dst

\* the indices a log says were assigned: what, at which offset, which index
Assigned(log) ==
    {<<log[i].ev, log[i].pos, log[i].idx>> :
        i \in {j \in 1..Len(log) : log[j].ev \in {"object", "symbol"}}}

\* the back-references a log says were met
Referred(log) ==
    {<<log[i].ev, log[i].pos, log[i].idx>> :
        i \in {j \in 1..Len(log) : log[j].ev \in {"object_ref", "symbol_ref"}}}

\* the events of the writer's log that are about objects
ObjectEvents(log) == {i \in 1..Len(log) : log[i].ev \in {"object", "object_ref"}}

\* C1: round trip.  For every value without NaN and without cycles,
\* from_reader on the bytes of to_writer succeeds and returns a value that
\* is deep_eq to the one written.
C1_RoundTrip ==
    (RoundTripDone /\ plain(heap, src_val, {}))
        => (pc = "read" /\ deep_eq(heap, src_val, val))

\* C2: varint round trip.  read_int on exactly the bytes write_int(i)
\* emitted returns i and consumes all of them and no more.
C2_VarintRoundTrip ==
    pc = "int_read"
        => (rd.status = "ok" /\ rd.int = val.i /\ rd.pos = Len(buf))

\* C3: index agreement.  The reader assigns to the object or symbol at each
\* offset the index the writer assigned there, so every `@N` and `;N` of the
\* writer resolves in the reader.
C3_IndexAgreement ==
    (RoundTripDone /\ rd.status \in {"ok", "BadObjectRef", "BadSymbolRef"})
        => /\ rd.status = "ok"
           /\ Assigned(rd.log) = Assigned(wr.log)
           /\ Referred(rd.log) = Referred(wr.log)

\* src_val is an Array whose single element is the handle of that Array
SelfArray ==
    /\ src_val.t = "Ref"
    /\ heap[src_val.h].k = "Array"
    /\ heap[src_val.h].items = <<src_val>>

\* C4: self-reference.  to_writer on an Array that holds only itself
\* terminates and succeeds, writing the inner occurrence as `@0`, and
\* from_reader on the result returns an Array whose element is the root.
C4_SelfReference ==
    (pc \in {"written", "aborted"} /\ SelfArray)
        => /\ pc = "written"
           /\ buf = StreamSelfRef
           /\ LET r == from_reader(buf, heap, overflow_checks) IN
              /\ r.status = "ok"
              /\ r.any.t = "Ref"
              /\ r.heap[r.any.h].k = "Array"
              /\ r.heap[r.any.h].items = <<r.any>>

\* C5: the object map is keyed by handle identity.  `@N` is written only for
\* a handle that was itself given a payload earlier in the same encode.
C5_KeyedByIdentity ==
    \A i \in 1..Len(wr.log) :
        wr.log[i].ev = "object_ref"
            => \E j \in 1..(i - 1) : wr.log[j].ev = "object" /\ wr.log[j].h = wr.log[i].h

\* the 0-based positions 0, 1 and the hash value of scenario 3 are one
\* handle, positions 3 and 4 another
Scenario3Sharing ==
    LET a == rd.heap[rd.any.h].items IN
    /\ Len(a) = 5
    /\ a[1].t = "Ref" /\ a[2] = a[1]
    /\ rd.heap[a[3].h].k = "Hash" /\ rd.heap[a[3].h].pairs[1][2] = a[1]
    /\ a[4].t = "Ref" /\ a[5] = a[4]
    /\ a[4] # a[1]

\* C6: decoding preserves sharing.  Every `@N` yields the handle of slot N:
\* the handle returned where object N was first read, the handle returned
\* at every `@N`, and the handle in slot N at the end are one handle.
C6_DecodingPreservesSharing ==
    (pc = "read" /\ rd.status = "ok")
        => /\ \A i \in 1..Len(rd.log) :
                  rd.log[i].ev \in {"object_ref", "set"}
                      => rd.objects[rd.log[i].idx + 1] = AnyRef(rd.log[i].h)
           /\ rd.src = StreamObjectRefCount1 => Scenario3Sharing

C6_Witness ==
    /\ pc = "read"
    /\ rd.src = StreamObjectRefCount1
    /\ Cardinality(Referred(rd.log)) >= 3

\* C7: each handle gets a payload at most once.  The first occurrence of a
\* handle gets the next object index and a payload, every later occurrence
\* is `@` with that index.
C7_PayloadAtMostOnce ==
    \A i \in ObjectEvents(wr.log) :
        LET e == wr.log[i]
            before == {j \in ObjectEvents(wr.log) : j < i}
            same == {j \in before : wr.log[j].h = e.h} IN
        IF same = {}
        THEN /\ e.ev = "object"
             /\ e.idx = Cardinality({j \in before : wr.log[j].ev = "object"})
        ELSE /\ e.ev = "object_ref"
             /\ \E j \in same : wr.log[j].ev = "object" /\ wr.log[j].idx = e.idx

\* C8: no placeholder is observable once read returned Ok.  Every slot holds
\* its final value, no cell is a placeholder, and a handle that `@N` handed
\* out while slot N was being decoded is the handle of slot N.
C8_NoPlaceholder ==
    (pc = "read" /\ rd.status = "ok")
        => /\ \A i \in 1..Len(rd.objects) :
                  rd.objects[i].t = "Ref" /\ ~rd.heap[rd.objects[i].h].ph
           /\ \A h \in 1..Len(rd.heap) : ~rd.heap[h].ph
           /\ \A i \in 1..Len(rd.log) :
                  (rd.log[i].ev = "object_ref" /\ rd.log[i].early)
                      => /\ rd.objects[rd.log[i].idx + 1] = AnyRef(rd.log[i].h)
                         /\ ~rd.heap[rd.log[i].h].ph

C8_Witness ==
    /\ pc = "read"
    /\ \E i \in 1..Len(rd.log) : rd.log[i].ev = "object_ref" /\ rd.log[i].early

\* C9: Extended is never given an object index by the writer.  The counter
\* counts the payloads that are not Extended wrappers, and no index belongs
\* to a wrapper.
C9_ExtendedNoIndex ==
    /\ \A i \in 1..Len(wr.log) :
           wr.log[i].ev = "object" => heap[wr.log[i].h].k # "Extended"
    /\ wr.object_next =
           Cardinality({i \in 1..Len(wr.log) :
                           wr.log[i].ev = "object" /\ heap[wr.log[i].h].k # "Extended"})

\* C10: BigInt symmetry.  from_reader on the encoding of a BigInt returns an
\* equal BigInt and leaves no byte of the magnitude unread.
C10_BigIntSymmetry ==
    (RoundTripDone /\ src_val.t = "Ref" /\ heap[src_val.h].k = "BigInt")
        => /\ pc = "read"
           /\ val.t = "Ref"
           /\ heap[val.h].k = "BigInt"
           /\ heap[val.h].num = heap[src_val.h].num
           /\ rd.pos = Len(rd.src)

\* the reader has returned from a call on buf
ReadDone == pc \in {"read", "failed"} /\ rd.src = buf

\* the reader has touched nothing but the first n bytes
NothingDecoded(n) ==
    /\ rd.pos = n
    /\ rd.log = <<>> /\ rd.symbols = <<>> /\ rd.objects = <<>> /\ rd.heap = <<>>

\* C11: the reader reads two header bytes first; when they are not 4, 8 it
\* returns Version and has decoded no entry (a source shorter than the
\* header is an IO error); with the right header it is never Version and it
\* decodes one entry only: a singleton or an empty Array at the root is
\* returned as such and the bytes after it are left unread.
C11_HeaderThenOneEntry ==
    ReadDone =>
        /\ Len(buf) < 2 => rd.status = "IO" /\ rd.log = <<>>
        /\ Len(buf) >= 2 /\ ~(buf[1] = 4 /\ buf[2] = 8) =>
              rd.status = "Version" /\ NothingDecoded(2) /\ pc = "failed" /\ val = AnyNil
        /\ Len(buf) >= 2 /\ buf[1] = 4 /\ buf[2] = 8 =>
              /\ rd.status # "Version"
              /\ Len(buf) > 2 /\ buf[3] \in {T_NIL, T_TRUE, T_FALSE} =>
                    /\ rd.status = "ok" /\ NothingDecoded(3) /\ pc = "read"
                    /\ val = (CASE buf[3] = T_NIL -> AnyNil
                                [] buf[3] = T_TRUE -> AnyTrue
                                [] OTHER -> AnyFalse)
              /\ Len(buf) > 4 /\ buf[3] = T_ARRAY /\ buf[4] = 0 =>
                    /\ rd.status = "ok" /\ rd.pos = 4 /\ Len(rd.objects) = 1
                    /\ val.t = "Ref" /\ rd.heap[val.h] = Array(<<>>)

\* a stream that wears a wrong minor version was refused, and one with the
\* right header and bytes after its entry was decoded
C11_Witness ==
    \/ ReadDone /\ buf = <<4, 9, T_NIL>> /\ rd.status = "Version"
    \/ ReadDone /\ buf = <<4, 8, T_NIL, 0, 0, 0>> /\ rd.status = "ok" /\ rd.pos = 3

\* the call returned the error `status` with the argument `arg`, and no value
Refused(status, arg) ==
    rd.status = status /\ rd.earg = arg /\ pc = "failed" /\ val = AnyNil

\* C12: `;N` with N not below the length of the symbol table fails with
\* BadSymbolRef(N) and `@N` with N not below the length of the object table
\* fails with BadObjectRef(N), at the root (both tables empty) and after k
\* symbols or k Arrays inside an Array (the root Array holds slot 0); no
\* value is returned. A negative N (`as usize` makes it larger than any
\* length) is refused with the same error.
C12_BadReference ==
    ReadDone =>
        /\ \A n \in RefIndexes :
              /\ buf = <<4, 8, T_SYMBOL_REF>> \o IndexBytes(n) => Refused("BadSymbolRef", n)
              /\ buf = <<4, 8, T_OBJECT_REF>> \o IndexBytes(n) => Refused("BadObjectRef", n)
              /\ \A k \in 0..2 :
                    /\ buf = SymbolRefStream(k, n) /\ n >= k => Refused("BadSymbolRef", n)
                    /\ buf = ObjectRefStream(k, n) /\ n >= k + 1 => Refused("BadObjectRef", n)
        /\ buf \in {<<4, 8, T_SYMBOL_REF, 250>>,
                    <<4, 8, T_ARRAY, 7, T_SYMBOL, 6, 97, T_SYMBOL_REF, 250>>} =>
              Refused("BadSymbolRef", -1)
        /\ buf \in {<<4, 8, T_OBJECT_REF, 250>>, <<4, 8, T_ARRAY, 6, T_OBJECT_REF, 250>>} =>
              Refused("BadObjectRef", -1)

\* `;2` after two symbols and `@3` after two Arrays were refused, while `;1`
\* and `@2` in the same places were served
C12_Witness ==
    \/ ReadDone /\ buf = SymbolRefStream(2, 2) /\ Refused("BadSymbolRef", 2)
    \/ ReadDone /\ buf = ObjectRefStream(2, 3) /\ Refused("BadObjectRef", 3)

\* the tags of consts.rs
DefinedTags ==
    {T_TRUE, T_FALSE, T_NIL, T_INT, T_SYMBOL, T_SYMBOL_REF, T_OBJECT_REF, T_INSTANCE,
     T_ARRAY, T_BIGNUM, T_CLASS, T_MODULE, T_CLASS_MODULE, T_DATA, T_FLOAT, T_HASH,
     T_HASH_DEFAULT, T_OBJECT, T_REGEX, T_STRING, T_STRUCT, T_USER_CLASS,
     T_USER_DEFINED, T_USER_MARSHAL, T_EXTENDED}

\* C13: there are 25 tags; an entry, at the root or as the element of an
\* Array, whose tag byte t is none of them fails with BadTypeByte(t), and no
\* entry fails with BadTypeByte of one of them; an Instance, at the root or
\* in an Array, whose next byte b is not `"`, `/` or `o` fails with
\* BadInstanceType(b). No value is returned.
C13_BadTag ==
    /\ Cardinality(DefinedTags) = 25
    /\ ReadDone =>
          \A t \in Byte :
             /\ buf \in {<<4, 8, t, 0, 0, 0>>, <<4, 8, T_ARRAY, 6, t, 0, 0, 0>>} =>
                   IF t \in DefinedTags
                   THEN ~(rd.status = "BadTypeByte" /\ rd.earg = t)
                   ELSE Refused("BadTypeByte", t)
             /\ /\ buf \in {<<4, 8, T_INSTANCE, t, 0, 0, 0>>,
                            <<4, 8, T_ARRAY, 6, T_INSTANCE, t, 0, 0, 0>>}
                /\ t \notin {T_STRING, T_REGEX, T_OBJECT}
                => Refused("BadInstanceType", t)

\* the byte `Z` as a tag in an Array and the byte `[` after an `I` were
\* refused
C13_Witness ==
    \/ ReadDone /\ buf = <<4, 8, T_ARRAY, 6, 90, 0, 0, 0>> /\ Refused("BadTypeByte", 90)
    \/ ReadDone /\ buf = <<4, 8, T_INSTANCE, T_ARRAY, 0, 0, 0>>
          /\ Refused("BadInstanceType", T_ARRAY)

\* the streams of the tests and of to_writer that from_reader decodes to
\* their last byte, with and without overflow checks
ValidStreams ==
    {s \in InputStreams \cup WrittenStreams :
        \A oc \in BOOLEAN :
           LET r == from_reader(s, <<>>, oc) IN r.status = "ok" /\ r.pos = Len(s)}

C16_BinStrings ==
    ReadDone =>
        \A b \in StringBodies :
           buf = <<4, 8, T_STRING>> \o IndexBytes(Len(b)) \o b =>
              IF rd.allow_bin_strings /\ ~bytes_to_string_ok(b)
              THEN rd.status = "ok" /\ val.t = "Ref" /\ rd.heap[val.h] = StrI(b, <<>>)
              ELSE IF bytes_to_string_ok(b)
              THEN rd.status = "ok" /\ val.t = "Ref" /\ rd.heap[val.h] = Str(b)
              ELSE Refused("Utf8", 0)

\* C17: a stream s that to_writer produced is decoded by from_reader, and
\* to_writer on what from_reader returned produces the bytes of s again.
C17_CanonicalBytes ==
    /\ pc \in {"read", "failed"} /\ calls >= 2 /\ wr.status = "ok" /\ rd.src = wr.dst =>
          pc = "read"
    /\ pc \in {"written", "aborted"} /\ calls = 3 =>
          pc = "written" /\ wr.dst = rd.src

Orderings == {"Less", "Equal", "Greater"}

\* the handles a value reaches, itself included
RECURSIVE Reach(_, _, _)
Reach(hp, todo, done) ==
    IF todo = {} THEN done
    ELSE LET h == CHOOSE x \in todo : TRUE
             c == hp[h]
             kids == {c.items[i].h : i \in {j \in 1..Len(c.items) : c.items[j].t = "Ref"}}
                     \cup {c.pairs[i][2].h :
                              i \in {j \in 1..Len(c.pairs) : c.pairs[j][2].t = "Ref"}}
                     \cup {c.pairs[i][1].h :
                              i \in {j \in 1..Len(c.pairs) : c.pairs[j][1].t = "Ref"}}
         IN  Reach(hp, (todo \cup kids) \ (done \cup {h}), done \cup {h})

\* the value reaches itself through at least one step
Cyclic(hp, a) ==
    /\ a.t = "Ref"
    /\ \E k \in Reach(hp, {a.h}, {}) :
          LET c == hp[k]
          IN  \/ \E i \in 1..Len(c.items) : c.items[i] = a
              \/ \E i \in 1..Len(c.pairs) : c.pairs[i][2] = a

\* C18: every call of deep_cmp returns, and returns an Ordering (the unwrap
\* in RbCompare::cmp never meets None), and deep_eq returns a boolean that
\* says whether deep_cmp is Equal; also when the operands reach themselves
\* through an Array, a Hash, an Object field or the payload of a Data,
\* UserClass, UserMarshal or Extended.
C18_DeepCmpReturns ==
    /\ \A i \in 1..Len(ret) :
          IF i <= Len(CmpCalls) THEN ret[i] \in Orderings ELSE ret[i] \in BOOLEAN
    /\ pc = "compared" => Len(ret) = Len(CmpCalls) + 1 /\ (ret[Len(ret)] <=> ret[1] = "Equal")
    /\ pc = "compare" /\ args # <<>> => ENABLED (DeepCmp \/ DeepEq)

\* two different cells that each are their own Data payload, and two Arrays
\* that hold each other, have been compared
C18_Witness ==
    /\ pc = "compared"
    /\ Cyclic(heap, args[1]) /\ Cyclic(heap, args[2]) /\ args[1] # args[2]
    /\ heap[args[1].h].k \in {"Data", "Array"}
    /\ heap[args[2].h].k = heap[args[1].h].k
    /\ ret[1] \in Orderings

reverse(o) == CASE o = "Less" -> "Greater" [] o = "Greater" -> "Less" [] OTHER -> o

\* place of a value in the order of the variants: Nil, False, True, Int,
\* Symbol, then the referenceable variants in the order of RbRef::ordinal
VariantRank(hp, a) == IF a.t = "Ref" THEN 5 + ordinal(hp[a.h].k) ELSE any_id(a)

\* C19: deep_cmp is a total order: a compared with itself is Equal, b
\* compared with a is the reverse of a compared with b, a <= b and b <= c
\* give a <= c, a equal to b compares against c as b does; values of
\* different variants are in the order Nil < False < True < Int < Symbol <
\* referenceable, and referenceable ones of different variants in the order
\* of their variant ordinal.
C19_TotalOrder ==
    Len(ret) >= Len(CmpCalls) =>
        LET ab == ret[1]  ba == ret[2]  aa == ret[3]  bc == ret[4]  ac == ret[5]
            ra == VariantRank(heap, args[1])  rb == VariantRank(heap, args[2])
        IN  /\ aa = "Equal"
            /\ ba = reverse(ab)
            /\ ab \in {"Less", "Equal"} /\ bc \in {"Less", "Equal"} => ac \in {"Less", "Equal"}
            /\ ab = "Equal" => ac = bc
            /\ ra < rb => ab = "Less"
            /\ ra > rb => ab = "Greater"

\* what the lookup of `key` on the cell behind h is to return; `fuel` bounds
\* the wrappers looked through
RECURSIVE ChildOf(_, _, _, _)
ChildOf(hp, h, key, fuel) ==
    LET c == hp[h] IN
    CASE c.k = "Array" ->
            IF key.t = "Int" /\ key.i >= 0 /\ key.i < Len(c.items)
            THEN Some(c.items[key.i + 1]) ELSE None
      [] c.k = "Hash" ->
            IF \E i \in 1..Len(c.pairs) : any_eq(hp, c.pairs[i][1], key)
            THEN Some(c.pairs[CHOOSE i \in 1..Len(c.pairs) : any_eq(hp, c.pairs[i][1], key)][2])
            ELSE None
      [] c.k \in {"Object", "Struct"} ->
            IF key.t = "Symbol" /\ \E i \in 1..Len(c.pairs) : c.pairs[i][1].s = key.s
            THEN Some(c.pairs[CHOOSE i \in 1..Len(c.pairs) : c.pairs[i][1].s = key.s][2])
            ELSE None
      [] c.k \in {"Data", "UserClass", "UserMarshal", "Extended"} ->
            IF c.items[1].t = "Ref" /\ fuel > 0
            THEN ChildOf(hp, c.items[1].h, key, fuel - 1) ELSE None
      [] OTHER -> None

\* the lookup along a path: None as soon as one step fails
RECURSIVE PathOf(_, _, _, _)
PathOf(hp, current, path, i) ==
    IF i > Len(path) THEN Some(current)
    ELSE IF current.t # "Ref" THEN None
    ELSE LET r == ChildOf(hp, current.h, path[i], Len(hp))
         IN  IF r.st = "None" THEN None ELSE PathOf(hp, r.v, path, i + 1)

\* no payload on the way wraps itself
Returned == ret # <<>> /\ ret[1].st # "Overflow"

\* C20: get_child returns the element of an Array at an Int key in range,
\* the value of a Hash under a key equal to the given key, the field of an
\* Object or Struct named by a Symbol key, the result of the lookup on the
\* payload for Data, UserClass, UserMarshal and Extended, and None for every
\* other variant or key; find_child applies it along the path and returns
\* None as soon as a step fails.
C20_ChildLookup ==
    /\ pc = "got" /\ Returned => ret[1] = ChildOf(heap, val.h, args[1], Len(heap))
    /\ pc = "found" /\ Returned => ret[1] = PathOf(heap, val, args, 1)

(***************************************************************************)
(* The varint of the format, byte by byte                                  *)
(***************************************************************************)
\* The fewest low little-endian bytes of v (1..4) after which every byte
\* left equals ext, the sign-extension byte.
MinBytes(v, ext) ==
    CHOOSE n \in 1..4 :
        /\ \A i \in (n + 1)..4 : to_le_bytes(v)[i] = ext
        /\ \A m \in 1..(n - 1) : \E i \in (m + 1)..4 : to_le_bytes(v)[i] # ext

CanonicalVarint(v) ==
    IF v = 0 THEN <<0>>
    ELSE IF v >= 1 /\ v <= 122 THEN <<v + 5>>
    ELSE IF v >= -123 /\ v <= -1 THEN <<(v - 5) % 256>>
    ELSE IF v > 0
         THEN <<MinBytes(v, 0)>> \o SubSeq(to_le_bytes(v), 1, MinBytes(v, 0))
         ELSE <<256 - MinBytes(v, 255)>>
                  \o SubSeq(to_le_bytes(v), 1, MinBytes(v, 255))

\* C21: write_int emits the canonical minimal varint: one byte for -123..122,
\* otherwise a length byte n (v > 0) or 256-n (v < 0) and the n low
\* little-endian bytes of v, n the fewest that keep the value under sign
\* extension (256 is 02 00 01, -124 is FF 84).
C21_CanonicalVarint ==
    pc \in {"int_written", "int_read"} => wr.dst = CanonicalVarint(val.i)

\* the i32 whose four little-endian two's-complement bytes are b
TwosComplement(b) ==
    IF b[4] >= 128
    THEN -1 - ((255 - b[1]) + (255 - b[2]) * 256 + (255 - b[3]) * 65536
                  + (255 - b[4]) * 16777216)
    ELSE b[1] + b[2] * 256 + b[3] * 65536 + b[4] * 16777216

\* payload bytes that follow the first byte b of a varint
VarintPayload(b) == IF b >= 1 /\ b <= 4 THEN b ELSE IF b >= 252 THEN 256 - b ELSE 0

\* the reference table of the format for the varint at the head of s
VarintTable(s) ==
    LET b == s[1]
        k == VarintPayload(b)
        low == SubSeq(s, 2, k + 1)
    IN  IF b = 0 THEN 0
        ELSE IF b <= 4 THEN TwosComplement(low \o [i \in 1..(4 - k) |-> 0])
        ELSE IF b <= 127 THEN b - 5
        ELSE IF b <= 251 THEN (b - 256) + 5
        ELSE TwosComplement(low \o [i \in 1..(4 - k) |-> 255])

\* C22: read_int decodes by the reference table of the format: 0 is 0, 1..4
\* is that many little-endian bytes zero-extended, 5..127 is b-5, 128..251 is
\* (b as i8)+5, 252..255 is 256-b little-endian bytes sign-extended with FF
\* (FF 84 is -124, FF 00 is -256); it consumes the varint and no more.
C22_VarintTable ==
    (pc = "int_decoded" /\ Len(buf) >= 1 + VarintPayload(buf[1]))
        => /\ rd.status = "ok"
           /\ rd.int = VarintTable(buf)
           /\ rd.pos = 1 + VarintPayload(buf[1])

\* the bytes of Regex{content, flags} as the first symbol user of a stream:
\* `I`, `/`, the content with its length, one flags byte, the E tail
RegexBytes(content, flags) ==
    <<4, 8, T_INSTANCE, T_REGEX>> \o CanonicalVarint(Len(content)) \o content
        \o <<flags % 256>> \o <<6, T_SYMBOL, 6, 69, T_TRUE>>

\* C23: the Regex flags are one raw byte in both directions.  to_writer
\* emits a Regex as `I`, `/`, length-prefixed content, one flags byte and the
\* E tail; from_reader on those bytes consumes one byte for the flags and
\* returns a Regex with the same content and the same flags, having read the
\* stream to its end.
C23_RegexFlagsByte ==
    (RoundTripDone /\ src_val.t = "Ref" /\ heap[src_val.h].k = "Regex")
        => /\ wr.dst = RegexBytes(heap[src_val.h].s, heap[src_val.h].flags)
           /\ pc = "read"
           /\ rd.pos = Len(rd.src)
           /\ val.t = "Ref"
           /\ heap[val.h].k = "Regex"
           /\ heap[val.h].s = heap[src_val.h].s
           /\ heap[val.h].flags = heap[src_val.h].flags

\* the field set of a tail: each key at the place of its first pair, with
\* the value of its last pair
FieldSet(tail) ==
    LET first == {i \in 1..Len(tail) : \A j \in 1..(i - 1) : tail[j][1] # tail[i][1]}
        nth(n) == CHOOSE i \in first : Cardinality({j \in first : j < i}) = n - 1
        last(k) == CHOOSE i \in 1..Len(tail) :
                      /\ tail[i][1] = k
                      /\ \A j \in (i + 1)..Len(tail) : tail[j][1] # k
    IN  [n \in 1..Cardinality(first) |->
            <<AnySymbol(tail[nth(n)][1]), tail[last(tail[nth(n)][1])][2]>>]

\* the bodies of StringBodies that are UTF-8
Utf8Bodies == {<<>>, <<97>>, <<195, 169>>}

\* C24: an `I"` entry decodes to Str exactly when the field set of its tail
\* holds E => True (the bytes must then be UTF-8, else the Utf8 error, and
\* the other fields are dropped); otherwise (empty tail, E => False, other
\* keys only) it decodes to StrI with the raw bytes and the fields of the
\* tail in stream order.
C24_InstanceStringPolicy ==
    \A b \in StringBodies, t \in InstanceTails :
        (ReadDone /\ buf = InstanceStringStream(b, t))
            => IF <<AnySymbol(sym_e), AnyTrue>> \in {FieldSet(t)[i] : i \in 1..Len(FieldSet(t))}
               THEN IF b \in Utf8Bodies
                    THEN /\ pc = "read" /\ val.t = "Ref"
                         /\ heap[val.h] = Str(b)
                    ELSE Refused("Utf8", 0)
               ELSE /\ pc = "read" /\ val.t = "Ref"
                    /\ heap[val.h] = StrI(b, FieldSet(t))

C24_Witness ==
    /\ ReadDone /\ pc = "read"
    /\ buf = InstanceStringStream(<<255>>, <<<<<<120>>, AnyInt(1)>>, <<<<121>>, AnyNil>>, <<<<120>>, AnyInt(2)>>>>)
    /\ heap[val.h] = StrI(<<255>>, <<<<AnySymbol(<<120>>), AnyInt(2)>>, <<AnySymbol(<<121>>), AnyNil>>>>)

\* the tags that take no slot of the object table
NoSlotTags ==
    {T_TRUE, T_FALSE, T_NIL, T_INT, T_SYMBOL, T_SYMBOL_REF, T_OBJECT_REF, T_EXTENDED}

\* what a cell holds, in the order of the stream: elements or payload, then
\* key and value of each pair, then the default of a Hash
Children(c) ==
    LET RECURSIVE flat(_)
        flat(p) == IF p = <<>> THEN <<>> ELSE <<p[1][1], p[1][2]>> \o flat(Tail(p))
    IN  c.items \o flat(c.pairs) \o c.def

\* the handles met on a depth-first, left-to-right walk from the values of
\* todo, each at its first encounter, an Extended passed through unlisted
RECURSIVE FirstEncounter(_, _, _)
FirstEncounter(hp, todo, acc) ==
    IF todo = <<>> THEN acc
    ELSE LET v == Head(todo) IN
         IF v.t # "Ref" THEN FirstEncounter(hp, Tail(todo), acc)
         ELSE IF hp[v.h].k = "Extended"
         THEN FirstEncounter(hp, Children(hp[v.h]) \o Tail(todo), acc)
         ELSE IF \E i \in 1..Len(acc) : acc[i] = v.h
         THEN FirstEncounter(hp, Tail(todo), acc)
         ELSE FirstEncounter(hp, Children(hp[v.h]) \o Tail(todo), Append(acc, v.h))

\* the offsets at which the reader's log says a slot was taken, in order
Slots(log) ==
    LET at == {i \in 1..Len(log) : log[i].ev = "object"}
        nth(n) == CHOOSE i \in at : Cardinality({j \in at : j < i}) = n - 1
    IN  [n \in 1..Cardinality(at) |-> log[nth(n)]]

SymbolEvents(log) ==
    LET at == {i \in 1..Len(log) : log[i].ev \in {"symbol", "symbol_ref"}}
        nth(n) == CHOOSE i \in at : Cardinality({j \in at : j < i}) = n - 1
    IN  [n \in 1..Cardinality(at) |-> log[nth(n)]]

\* the bytes of dst from offset pos on are b
WrittenAt(dst, pos, b) ==
    Len(dst) >= pos + Len(b) /\ SubSeq(dst, pos + 1, pos + Len(b)) = b

\* C26: in one encode the first occurrence of a symbol content (as a value,
\* a name, a field key or the E of a string tail) is written as `:` and the
\* length-prefixed bytes and takes the next index of a counter that starts at
\* 0; every later occurrence is `;` and the varint of that index.  The E tail
\* of a Str is the byte 6, this symbol emit of E, then `T`.
C26_SymbolInterning ==
    (pc = "written" /\ wr.status = "ok") =>
        LET ev == SymbolEvents(wr.log) IN
        /\ \A n \in 1..Len(ev) :
              LET before == {m \in 1..(n - 1) : ev[m].s = ev[n].s} IN
              IF before = {}
              THEN /\ ev[n].ev = "symbol"
                   /\ ev[n].idx = Cardinality({ev[m].s : m \in 1..(n - 1)})
                   /\ WrittenAt(wr.dst, ev[n].pos,
                                <<T_SYMBOL>> \o CanonicalVarint(Len(ev[n].s)) \o ev[n].s)
              ELSE /\ ev[n].ev = "symbol_ref"
                   /\ \E m \in before : ev[m].ev = "symbol" /\ ev[m].idx = ev[n].idx
                   /\ WrittenAt(wr.dst, ev[n].pos,
                                <<T_SYMBOL_REF>> \o CanonicalVarint(ev[n].idx))
        /\ wr.symbol_next = Cardinality({ev[m].s : m \in 1..Len(ev)})
        /\ (rd.status = "ok" /\ src_val = rd.any
               /\ rd.src \in {StreamClassAndInt, StreamArrayStringHash})
              => wr.dst = rd.src
        /\ (src_val.t = "Ref" /\ heap[src_val.h].k = "Str")
              => wr.dst = <<4, 8, T_INSTANCE, T_STRING>>
                             \o CanonicalVarint(Len(heap[src_val.h].s)) \o heap[src_val.h].s
                             \o <<6, T_SYMBOL, 6, 69, T_TRUE>>

C26_Witness ==
    /\ pc = "written" /\ wr.status = "ok"
    /\ rd.status = "ok" /\ src_val = rd.any /\ rd.src = StreamClassAndInt
    /\ Cardinality({i \in 1..Len(wr.log) : wr.log[i].ev = "symbol_ref"}) = 4
    /\ wr.symbol_next = 4

\* the field set of a tail, as a tail: keys as bytes
FieldTail(tail) ==
    [n \in 1..Len(FieldSet(tail)) |-> <<FieldSet(tail)[n][1].s, FieldSet(tail)[n][2]>>]

\* the streams of FieldStreams for the tail t, each with the variant it
\* decodes to and the bytes of that variant when its fields are those of u
FieldCases(t, u) ==
    {<<ObjectFieldStream(T_OBJECT, t), "Object", ObjectFieldStream(T_OBJECT, u)>>,
     <<ObjectFieldStream(T_STRUCT, t), "Struct", ObjectFieldStream(T_STRUCT, u)>>,
     <<InstanceObjectStream(t), "Object", ObjectFieldStream(T_OBJECT, u)>>,
     <<StrIFieldStream(t), "StrI", StrIFieldStream(u)>>,
     <<RegexIFieldStream(t), "RegexI", RegexIFieldStream(u)>>}

\* the keys of a field map, in its order
Keys(pairs) == [n \in 1..Len(pairs) |-> pairs[n][1]]

\* C27: field order is kept end to end.  The fields of a decoded Object,
\* Struct, StrI or RegexI are in the order in which their keys first appear
\* in the stream, a repeated key keeping its first place with its last
\* value; the writer emits the field count and then the pairs in that order.
C27_FieldOrder ==
    /\ \A t \in FieldTails : \A c \in FieldCases(t, FieldTail(t)) :
          (rd.status = "ok" /\ rd.src = c[1] /\ pc \in {"read", "written"}) =>
              /\ rd.any.t = "Ref"
              /\ rd.heap[rd.any.h].k = c[2]
              /\ rd.heap[rd.any.h].pairs = FieldSet(t)
              /\ (pc = "written" /\ src_val = rd.any) => wr.dst = c[3]
    /\ (RoundTripDone /\ pc = "read" /\ src_val.t = "Ref"
           /\ heap[src_val.h].k \in {"Object", "Struct", "StrI", "RegexI"})
          => /\ val.t = "Ref"
             /\ Keys(heap[val.h].pairs) = Keys(heap[src_val.h].pairs)

C27_Witness ==
    LET t == <<<<<<64, 97>>, AnyInt(1)>>, <<<<64, 98>>, AnyInt(2)>>, <<<<64, 97>>, AnyInt(3)>>,
               <<<<64, 98>>, AnyInt(4)>>>>
    IN  /\ pc = "written" /\ rd.status = "ok" /\ src_val = rd.any
        /\ rd.src = InstanceObjectStream(t)
        /\ wr.dst = ObjectFieldStream(T_OBJECT,
                       <<<<<<64, 97>>, AnyInt(3)>>, <<<<64, 98>>, AnyInt(4)>>>>)

\* two Hash defaults differ: one is absent, or both are scalars and unequal
DefaultsDiffer(d1, d2) ==
    \/ Len(d1) # Len(d2)
    \/ Len(d1) = 1 /\ d1[1].t # "Ref" /\ d2[1].t # "Ref" /\ d1[1] # d2[1]

\* C28: deep_eq tells Hashes of different shape apart: two Hashes with a
\* different number of entries, or with different defaults (one absent, or
\* defaults that are not equal), are not deep-equal; an empty Hash is not
\* deep-equal to one with entries.
C28_HashShape ==
    (/\ pc = "compared"
     /\ args[1].t = "Ref" /\ heap[args[1].h].k = "Hash"
     /\ args[2].t = "Ref" /\ heap[args[2].h].k = "Hash"
     /\ \/ Len(heap[args[1].h].pairs) # Len(heap[args[2].h].pairs)
        \/ DefaultsDiffer(heap[args[1].h].def, heap[args[2].h].def))
        => ret[Len(ret)] = FALSE

\* C29: hashing agrees with equality on RbAny: a key equal to a key stored
\* in a Hash has the hash of the stored key, so get_child on the Hash with
\* it finds the entry (a Str key is found through any handle of the same
\* text).
C29_HashAgreesWithEq ==
    (pc = "got" /\ heap[val.h].k = "Hash") =>
        \A i \in 1..Len(heap[val.h].pairs) :
            any_eq(heap, heap[val.h].pairs[i][1], args[1])
                => /\ any_hash(heap[val.h].pairs[i][1]) = any_hash(args[1])
                   /\ ret[1].st = "Some"

\* the outcomes of a call that returns: Ok, or one of the typed errors
Returns ==
    {"ok", "IO", "Utf8", "ParseFloat", "Version", "BadSymbolRef", "BadObjectRef",
     "BadInstanceType", "UnexpectedType", "BadTypeByte"}

\* C30: decoding is total: on every input from_reader returns Ok(value) or
\* a typed error and never aborts; a negative varint read as a length or a
\* count, and the varint FC 00 00 00 80, give an error or a value, not a
\* panic.
C30_DecodingTotal == ReadDone => rd.status \in Returns

====
